---- MODULE Spec2Model ----
(***************************************************************************)
(* A model of the ILM banner generator (banner_engine.py) and the story    *)
(* frame generator (story_engine.py).  Text is modelled as sequences of    *)
(* one-character strings so that formatting, slicing and parsing are       *)
(* computed character by character, as the Python code does.               *)
(***************************************************************************)
EXTENDS Integers, Sequences, FiniteSets, TLC

VARIABLES
    b_pc,        \* generate_all: position ("idle", "loop", "done", "raised")
    cfg,         \* generate_all: the config dict it was called with
    b_iter,      \* generate_all: number of loop bodies executed (lang x size)
    results,     \* generate_all: the local list `results`
    b_ret,       \* generate_all: the returned list
    h_pc,        \* hex_to_rgb: position ("call", "done")
    h_in,        \* hex_to_rgb: the argument h
    h_out,       \* hex_to_rgb: the outcome (triple or ValueError)
    s_pc,        \* generate_franchise_frames: position
    channel,     \* generate_franchise_frames: argument channel
    products,    \* generate_franchise_frames: argument products
    theme_name,  \* generate_franchise_frames: argument theme_name
    s_results,   \* generate_franchise_frames: the local list `results`
    s_i,         \* generate_franchise_frames: index i of the running loop
    collage_en,  \* generate_franchise_frames: the canvas collage_en
    collage_fr,  \* generate_franchise_frames: the canvas collage_fr
    s_ret,       \* generate_franchise_frames: the returned list
    clock,       \* the calendar month datetime.now() reports (1..12)
    p_pc,        \* _pad_products: position ("call", "done")
    p_products,  \* _pad_products: the caller's list passed as products
    p_orig,      \* _pad_products: the value of that list when the call began
    p_count,     \* _pad_products: argument count
    p_out,       \* _pad_products: the returned list
    f_pc,        \* fit_image: position ("idle", "call", "done")
    f_img,       \* fit_image: the size of the argument img
    f_max_w,     \* fit_image: argument max_w
    f_max_h,     \* fit_image: argument max_h
    f_out,       \* fit_image: the size handed to img.resize
    t_pc,        \* trim_transparent: position ("idle", "call", "once", "twice")
    t_img,       \* trim_transparent: the argument img
    t_once,      \* trim_transparent(img)
    t_twice,     \* trim_transparent(trim_transparent(img))
    hl_pc,       \* _build_headline_banner: position ("idle", "call", "loop", "draw", "done")
    hl_w,        \* _build_headline_banner: argument w
    hl_h,        \* _build_headline_banner: argument h
    hl_txt,      \* _build_headline_banner: hl_txt, by the advance width of its text
    hl_zone_w,   \* _build_headline_banner: hl_zone_w
    hl_size,     \* _build_headline_banner: hl_size
    hl_font,     \* _build_headline_banner: the size of the font object hl_font
    hl_drawn,    \* _build_headline_banner: the font size draw.text drew the headline with
    hl_decrements, \* _build_headline_banner: how often `hl_size -= 1` has run
    i_pc,        \* an individual builder: position ("idle", "call", "done")
    i_channel,   \* an individual builder: the channel whose builder is called
    i_product,   \* an individual builder: argument product_data
    i_frame,     \* an individual builder: the canvas it returns
    w_pc,        \* _draw_text_block: position ("idle", "call", "loop", "done")
    w_text,      \* _draw_text_block: argument text
    w_max_width, \* _draw_text_block: argument max_width (0 for None)
    w_words,     \* _draw_text_block: words
    w_k,         \* _draw_text_block: number of words the loop has taken
    w_lines,     \* _draw_text_block: lines
    w_current_line, \* _draw_text_block: current_line
    r_calls,     \* number of finished calls of generate_franchise_frames kept for comparison
    first_theme, \* theme_name of the kept call
    first_ret,   \* the list the kept call returned
    e_pc,        \* _extract_themes_from_results: position ("idle", "call", "done")
    e_results,   \* _extract_themes_from_results: argument results
    e_channel,   \* _extract_themes_from_results: argument channel
    e_month,     \* _extract_themes_from_results: the month datetime.now() reports
    e_year,      \* _extract_themes_from_results: the year datetime.now() reports
    e_themes,    \* _extract_themes_from_results: the returned list
    q_pc,        \* a search function: position
    q_fn,        \* the function called: "_brave_web_search", "search_images" or "research_themes"
    q_key,       \* whether BRAVE_API_KEY is set
    q_log,       \* the requests the current search call has sent: provider and outcome
    q_msgs,      \* search_images: the st.warning and st.error messages shown
    q_ret,       \* the value the function returned
    q_channels,  \* research_themes: argument channels
    q_ci,        \* research_themes: number of channels done
    q_ti,        \* research_themes: number of search terms done for the channel
    all_results, \* research_themes: all_results
    all_themes,  \* research_themes: all_themes
    q_month,     \* research_themes: the month datetime.now() reports
    q_year,      \* research_themes: the year datetime.now() reports
    g_pc,        \* generate_all_franchises: position ("idle", "loop", "done", "raised")
    franchise_data, \* generate_all_franchises: argument franchise_data, its items in dict order
    theme_names, \* generate_all_franchises: argument theme_names ({} for None)
    g_k,         \* generate_all_franchises: number of items of franchise_data the loop has taken
    g_all_results, \* generate_all_franchises: all_results
    g_ret,       \* generate_all_franchises: the returned list
    g_now,       \* generate_all_franchises: the month datetime.now() reports (1..12)
    pg_page,     \* a banner page: which script runs ("us" pages/1, "app" app.py, "ca" pages/3)
    pg_pc,       \* a banner page: what the last run of the script showed ("idle", "form", "shown", "failed")
    logo_img,    \* a banner page: logo_img, the value of the logo image picker
    product_img, \* a banner page: product_img, the value of the product image picker
    brand_name,  \* a banner page: brand_name
    brand_abbrev, \* a banner page: brand_abbrev
    headline_eng, \* a banner page: headline_eng
    headline_esp, \* a banner page: headline_esp
    bg_color,    \* a banner page: bg_color
    pg_cfg,      \* a banner page: the cfg dict handed to generate_all in the last run
    pg_results,  \* a banner page: results
    pg_preview,  \* a banner page: the captions and images the preview shows
    pg_zip,      \* a banner page: the entries written to the ZIP
    jd_step,     \* Just Dropped wizard: st.session_state.jd_step (0 before the page is opened)
    jd_themes,   \* Just Dropped wizard: st.session_state.jd_themes, the theme names per channel
    jd_approved_themes, \* Just Dropped wizard: st.session_state.jd_approved_themes
    jd_products, \* Just Dropped wizard: st.session_state.jd_products
    jd_alt_asins, \* Just Dropped wizard: st.session_state.jd_alt_asins
    jd_generated_frames, \* Just Dropped wizard: st.session_state.jd_generated_frames
    jd_report_data, \* Just Dropped wizard: st.session_state.jd_report_data
    wz_tab,      \* Just Dropped wizard: the channel whose widgets the user works with
    wz_month,    \* Just Dropped wizard: the month datetime.now() reports
    wz_event,    \* Just Dropped wizard: the user event the last run of the script handled
    d_pc,        \* two calls with equal arguments: position ("idle", "call", "once", "twice")
    d_fn,        \* the function called twice: "generate_franchise_frames" or "generate_all"
    d_channel,   \* generate_franchise_frames: argument channel of both calls
    d_products,  \* generate_franchise_frames: the list passed as products to both calls
    d_theme,     \* generate_franchise_frames: argument theme_name of both calls
    d_cfg,       \* generate_all: the dict passed as cfg to both calls
    d_now,       \* the month datetime.now() reports (1..12)
    d_first,     \* what the first call returned
    d_second,    \* what the second call returned
    ly_pc,       \* _build_headline_banner / _build_compact_banner: position ("idle", "call", "logo", "done")
    ly_size,     \* the entry of LARGE_SIZES the banner is built for
    ly_logo,     \* size of cfg["logo_image"] after trim_transparent
    ly_prod,     \* size of cfg["product_image"] after trim_transparent
    ly_logo_box, \* the rectangle the logo was pasted on
    ly_prod_box  \* the rectangle the product image was pasted on

banner_vars == <<b_pc, cfg, b_iter, results, b_ret>>
hex_vars == <<h_pc, h_in, h_out>>
story_vars == <<s_pc, channel, products, theme_name, s_results, s_i,
                collage_en, collage_fr, s_ret, clock>>
pad_vars == <<p_pc, p_products, p_orig, p_count, p_out>>
fit_vars == <<f_pc, f_img, f_max_w, f_max_h, f_out>>
trim_vars == <<t_pc, t_img, t_once, t_twice>>
headline_vars == <<hl_pc, hl_w, hl_h, hl_txt, hl_zone_w, hl_size, hl_font, hl_drawn, hl_decrements>>
individual_vars == <<i_pc, i_channel, i_product, i_frame>>
wrap_vars == <<w_pc, w_text, w_max_width, w_words, w_k, w_lines, w_current_line>>
recall_vars == <<r_calls, first_theme, first_ret>>
extract_vars == <<e_pc, e_results, e_channel, e_month, e_year, e_themes>>
search_vars == <<q_pc, q_fn, q_key, q_log, q_msgs, q_ret, q_channels, q_ci, q_ti, all_results, all_themes, q_month, q_year>>
franchises_vars == <<g_pc, franchise_data, theme_names, g_k, g_all_results, g_ret, g_now>>
page_vars == <<pg_page, pg_pc, logo_img, product_img, brand_name, brand_abbrev, headline_eng, headline_esp, bg_color, pg_cfg, pg_results, pg_preview, pg_zip>>
wizard_vars == <<jd_step, jd_themes, jd_approved_themes, jd_products, jd_alt_asins, jd_generated_frames, jd_report_data, wz_tab, wz_month, wz_event>>
repeat_vars == <<d_pc, d_fn, d_channel, d_products, d_theme, d_cfg, d_now, d_first, d_second>>
layout_vars == <<ly_pc, ly_size, ly_logo, ly_prod, ly_logo_box, ly_prod_box>>
vars == <<banner_vars, hex_vars, story_vars, pad_vars, fit_vars, trim_vars, headline_vars, individual_vars, wrap_vars, recall_vars, extract_vars, search_vars, franchises_vars, page_vars, wizard_vars, repeat_vars, layout_vars>>

\* what a step of one component leaves alone: the state of all the others
outside_banner == <<hex_vars, story_vars, pad_vars, fit_vars, trim_vars, headline_vars, individual_vars, wrap_vars, recall_vars, extract_vars, search_vars, franchises_vars, page_vars, wizard_vars, repeat_vars, layout_vars>>
outside_hex == <<banner_vars, story_vars, pad_vars, fit_vars, trim_vars, headline_vars, individual_vars, wrap_vars, recall_vars, extract_vars, search_vars, franchises_vars, page_vars, wizard_vars, repeat_vars, layout_vars>>
outside_story == <<banner_vars, hex_vars, pad_vars, fit_vars, trim_vars, headline_vars, individual_vars, wrap_vars, recall_vars, extract_vars, search_vars, franchises_vars, page_vars, wizard_vars, repeat_vars, layout_vars>>
outside_pad == <<banner_vars, hex_vars, story_vars, fit_vars, trim_vars, headline_vars, individual_vars, wrap_vars, recall_vars, extract_vars, search_vars, franchises_vars, page_vars, wizard_vars, repeat_vars, layout_vars>>
outside_fit == <<banner_vars, hex_vars, story_vars, pad_vars, trim_vars, headline_vars, individual_vars, wrap_vars, recall_vars, extract_vars, search_vars, franchises_vars, page_vars, wizard_vars, repeat_vars, layout_vars>>
outside_trim == <<banner_vars, hex_vars, story_vars, pad_vars, fit_vars, headline_vars, individual_vars, wrap_vars, recall_vars, extract_vars, search_vars, franchises_vars, page_vars, wizard_vars, repeat_vars, layout_vars>>
outside_headline == <<banner_vars, hex_vars, story_vars, pad_vars, fit_vars, trim_vars, individual_vars, wrap_vars, recall_vars, extract_vars, search_vars, franchises_vars, page_vars, wizard_vars, repeat_vars, layout_vars>>
outside_individual == <<banner_vars, hex_vars, story_vars, pad_vars, fit_vars, trim_vars, headline_vars, wrap_vars, recall_vars, extract_vars, search_vars, franchises_vars, page_vars, wizard_vars, repeat_vars, layout_vars>>
outside_wrap == <<banner_vars, hex_vars, story_vars, pad_vars, fit_vars, trim_vars, headline_vars, individual_vars, recall_vars, extract_vars, search_vars, franchises_vars, page_vars, wizard_vars, repeat_vars, layout_vars>>
outside_story_recall == <<banner_vars, hex_vars, pad_vars, fit_vars, trim_vars, headline_vars, individual_vars, wrap_vars, extract_vars, search_vars, franchises_vars, page_vars, wizard_vars, repeat_vars, layout_vars>>
outside_recall == <<banner_vars, hex_vars, story_vars, pad_vars, fit_vars, trim_vars, headline_vars, individual_vars, wrap_vars, extract_vars, search_vars, franchises_vars, page_vars, wizard_vars, repeat_vars, layout_vars>>
outside_extract == <<banner_vars, hex_vars, story_vars, pad_vars, fit_vars, trim_vars, headline_vars, individual_vars, wrap_vars, recall_vars, search_vars, franchises_vars, page_vars, wizard_vars, repeat_vars, layout_vars>>
outside_search == <<banner_vars, hex_vars, story_vars, pad_vars, fit_vars, trim_vars, headline_vars, individual_vars, wrap_vars, recall_vars, extract_vars, franchises_vars, page_vars, wizard_vars, repeat_vars, layout_vars>>
outside_franchises == <<banner_vars, hex_vars, story_vars, pad_vars, fit_vars, trim_vars, headline_vars, individual_vars, wrap_vars, recall_vars, extract_vars, search_vars, page_vars, wizard_vars, repeat_vars, layout_vars>>
outside_page == <<banner_vars, hex_vars, story_vars, pad_vars, fit_vars, trim_vars, headline_vars, individual_vars, wrap_vars, recall_vars, extract_vars, search_vars, franchises_vars, wizard_vars, repeat_vars, layout_vars>>
outside_wizard == <<banner_vars, hex_vars, story_vars, pad_vars, fit_vars, trim_vars, headline_vars, individual_vars, wrap_vars, recall_vars, extract_vars, search_vars, franchises_vars, page_vars, repeat_vars, layout_vars>>
outside_repeat == <<banner_vars, hex_vars, story_vars, pad_vars, fit_vars, trim_vars, headline_vars, individual_vars, wrap_vars, recall_vars, extract_vars, search_vars, franchises_vars, page_vars, wizard_vars, layout_vars>>
outside_layout == <<banner_vars, hex_vars, story_vars, pad_vars, fit_vars, trim_vars, headline_vars, individual_vars, wrap_vars, recall_vars, extract_vars, search_vars, franchises_vars, page_vars, wizard_vars, repeat_vars>>

-----------------------------------------------------------------------------
(* Bounds of the model *)

\* longest colour string body (after the leading '#' characters) drawn as input
MaxBody == 7
\* most leading '#' characters of a drawn colour string
MaxHashes == 2
\* longest product list handed to the story engine
MaxProducts == 7
\* largest slot count handed to _pad_products
MaxCount == 8


\* largest width and height of an image handed to fit_image
MaxDim == 11
\* largest max_w and max_h handed to fit_image
MaxBox == 15


\* most pixels (width * height) of an image handed to trim_transparent
MaxCells == 9


\* the headline texts drawn are 0..MaxAdvSteps steps of AdvStep font units wide
MaxAdvSteps == 30


\* longest copy text of a product handed to an individual builder
MaxCopy == 36


\* longest text handed to _draw_text_block
MaxText == 7
\* largest max_width handed to _draw_text_block
MaxWidth == 6


\* longest list of search results handed to _extract_themes_from_results
MaxResults == 3


\* most channel keys of a franchise_data dict handed to generate_all_franchises
MaxFranchises == 2


\* product rows of a channel in the wizard (the page keeps 10 per channel)
MaxRows == 2

-----------------------------------------------------------------------------
(* Text helpers: Python string operations on character sequences *)

Min(a, b) == IF a <= b THEN a ELSE b

DigitChars == <<"0", "1", "2", "3", "4", "5", "6", "7", "8", "9">>

\* str(n) for n >= 0, as an f-string formats an int
RECURSIVE IntToStr(_)
IntToStr(n) ==
    IF n < 10 THEN <<DigitChars[n + 1]>>
    ELSE IntToStr(n \div 10) \o <<DigitChars[(n % 10) + 1]>>

\* Python slice s[a:b] with 0-based a, exclusive b, clamped to the length
Slice(s, a, b) ==
    IF a >= Min(b, Len(s)) THEN <<>> ELSE SubSeq(s, a + 1, Min(b, Len(s)))

\* str.lstrip(chars): drop every leading character that is in chars
RECURSIVE lstrip(_, _)
lstrip(s, chars) ==
    IF s # <<>> /\ Head(s) \in chars THEN lstrip(Tail(s), chars) ELSE s

\* str.rstrip(chars)
RECURSIVE rstrip(_, _)
rstrip(s, chars) ==
    IF s # <<>> /\ s[Len(s)] \in chars
    THEN rstrip(SubSeq(s, 1, Len(s) - 1), chars) ELSE s

-----------------------------------------------------------------------------
(* banner_engine.hex_to_rgb *)

LowerHex == <<"0", "1", "2", "3", "4", "5", "6", "7", "8", "9",
              "a", "b", "c", "d", "e", "f">>
UpperHex == <<"0", "1", "2", "3", "4", "5", "6", "7", "8", "9",
              "A", "B", "C", "D", "E", "F">>

IsHexDigit(c) == \E k \in 1..16 : LowerHex[k] = c \/ UpperHex[k] = c

HexVal(c) == (CHOOSE k \in 1..16 : LowerHex[k] = c \/ UpperHex[k] = c) - 1

Whitespace == {" ", "\t", "\n"}

\* value of a string of hex digits, most significant first
RECURSIVE HexDigitsVal(_)
HexDigitsVal(s) ==
    IF s = <<>> THEN 0
    ELSE 16 * HexDigitsVal(SubSeq(s, 1, Len(s) - 1)) + HexVal(s[Len(s)])

\* Python int(s, 16).  int() strips surrounding whitespace and accepts one
\* leading sign; what is left must be a non-empty run of hex digits.  (The
\* "0x" prefix and "_" separators need three characters to form a literal and
\* hex_to_rgb only passes slices of at most two.)
Int16(s) ==
    LET t == rstrip(lstrip(s, Whitespace), Whitespace)
        signed == t # <<>> /\ Head(t) \in {"+", "-"}
        digits == IF signed THEN Tail(t) ELSE t
        ok == digits # <<>> /\ \A k \in 1..Len(digits) : IsHexDigit(digits[k])
    IN  IF ~ok THEN [err |-> "ValueError", val |-> 0]
        ELSE [err |-> "",
              val |-> IF signed /\ Head(t) = "-" THEN 0 - HexDigitsVal(digits)
                      ELSE HexDigitsVal(digits)]

hex_offsets_shifted == <<0, 2, 3>>

\* the slice offsets of the generator expression: for i in (0, 2, 4)
hex_offsets == <<0, 2, 4>>

\* h = h.lstrip("#"); tuple(int(h[i:i+2], 16) for i in (0, 2, 4))
hex_to_rgb(h) ==
    LET s == lstrip(h, {"#"})
        parts == [k \in 1..3 |-> Int16(Slice(s, hex_offsets[k], hex_offsets[k] + 2))]
    IN  IF \E k \in 1..3 : parts[k].err # ""
        THEN [err |-> "ValueError", rgb |-> <<>>]
        ELSE [err |-> "", rgb |-> <<parts[1].val, parts[2].val, parts[3].val>>]

\* rgbToHex of the specification: each channel as two lowercase hex digits
rgb_to_hex(rgb) ==
    LET two(v) == <<LowerHex[(v \div 16) + 1], LowerHex[(v % 16) + 1]>>
    IN  two(rgb[1]) \o two(rgb[2]) \o two(rgb[3])

\* str.lower() restricted to the hex letters
lower(s) ==
    [k \in 1..Len(s) |->
        IF \E j \in 11..16 : UpperHex[j] = s[k]
        THEN LowerHex[CHOOSE j \in 11..16 : UpperHex[j] = s[k]]
        ELSE s[k]]

-----------------------------------------------------------------------------
(* Colour strings handed to hex_to_rgb *)

\* a lowercase digit, an uppercase digit, a decimal digit, and a non-hex letter
HexAlphabet == {"a", "F", "9", "g"}

ColorBodies == UNION {[1..n -> HexAlphabet] : n \in 0..MaxBody}

Hashes(n) == [k \in 1..n |-> "#"]

ColorInputs == {Hashes(n) \o b : n \in 0..MaxHashes, b \in ColorBodies}

HexIdle == h_pc = "idle" /\ h_in = <<>> /\ h_out = [err |-> "", rgb |-> <<>>]

HexInit ==
    /\ h_pc = "call"
    /\ h_in \in ColorInputs
    /\ h_out = [err |-> "", rgb |-> <<>>]

\* one call hex_to_rgb(h_in): returns the triple or raises ValueError
HexConvert ==
    /\ h_pc = "call"
    /\ h_out' = hex_to_rgb(h_in)
    /\ h_pc' = "done"
    /\ UNCHANGED <<h_in, outside_hex>>

-----------------------------------------------------------------------------
(* banner_engine.generate_all *)

PLACEMENT == <<"I", "L", "M">>

\* (width, height, show_headline)
LARGE_SIZES == <<
    [w |-> 1300, h |-> 90, has_hl |-> TRUE],
    [w |-> 1200, h |-> 90, has_hl |-> TRUE],
    [w |-> 640, h |-> 90, has_hl |-> FALSE] >>

LANGS == <<"ENG", "ESP">>

LangChars(lang) == IF lang = "ENG" THEN <<"E", "N", "G">> ELSE <<"E", "S", "P">>

\* _build_headline_banner: the raster as the values it is drawn from
\* (raises when the background colour does not parse; the Spanish text is
\* written here without its inverted exclamation mark)
build_headline_banner(w, h, c, lang) ==
    [layout |-> "headline", w |-> w, h |-> h, lang |-> lang,
     bg |-> hex_to_rgb(c.bg_color_hex).rgb,
     noa_txt |-> IF lang = "ENG" THEN "New on Amazon!" ELSE "Nuevo en Amazon!",
     hl_txt |-> IF lang = "ENG" THEN c.headline_eng ELSE c.headline_esp,
     cta_verb |-> IF lang = "ENG" THEN "Shop" ELSE "Compra",
     cta_brand |-> c.brand_name]

\* _build_compact_banner: no headline text
build_compact_banner(w, h, c, lang) ==
    [layout |-> "compact", w |-> w, h |-> h, lang |-> lang,
     bg |-> hex_to_rgb(c.bg_color_hex).rgb,
     noa_txt |-> "", hl_txt |-> "",
     cta_verb |-> IF lang = "ENG" THEN "Shop" ELSE "Compra",
     cta_brand |-> c.brand_name]

banner_name_no_lang(w, h, lang, c) ==
    IntToStr(w) \o <<"x">> \o IntToStr(h) \o <<"_">> \o PLACEMENT \o <<"_">>
        \o c.brand_abbrev \o <<".", "j", "p", "g">>

\* f"{w}x{h}_{lang}_{PLACEMENT}_{cfg['brand_abbrev']}.jpg"
banner_name(w, h, lang, c) ==
    IntToStr(w) \o <<"x">> \o IntToStr(h) \o <<"_">> \o LangChars(lang)
        \o <<"_">> \o PLACEMENT \o <<"_">> \o c.brand_abbrev
        \o <<".", "j", "p", "g">>

half_third(n) == n \div 3

\* hw, hh = w // 2, h // 2
half(n) == n \div 2

\* banner.resize((hw, hh), Image.LANCZOS): the resampled raster
resize(banner, hw, hh) == [banner EXCEPT !.w = hw, !.h = hh]

loop_body_entries_full_only(size, lang, c) ==
    LET banner == IF size.has_hl
                  THEN build_headline_banner(size.w, size.h, c, lang)
                  ELSE build_compact_banner(size.w, size.h, c, lang)
    IN  << [name |-> banner_name(size.w, size.h, lang, c), image |-> banner] >>

\* the two entries one loop body appends: the full-size and the half-size JPEG
loop_body_entries(size, lang, c) ==
    LET banner == IF size.has_hl
                  THEN build_headline_banner(size.w, size.h, c, lang)
                  ELSE build_compact_banner(size.w, size.h, c, lang)
        hw == half(size.w)
        hh == half(size.h)
    IN  << [name |-> banner_name(size.w, size.h, lang, c), image |-> banner],
           [name |-> banner_name(hw, hh, lang, c),
            image |-> resize(banner, hw, hh)] >>

BrandAbbrevs == { <<"O", "C", "I", "M">>, <<"x">>,
                  <<"E", "S", "P", "_", "I", "L", "M">>, <<"6", "5", "0">> }

BgColors == { <<"#", "d", "9", "f", "6", "9", "e">>,
              <<"F", "F", "F", "F", "F", "F">>,
              <<"#", "1", "2">> }

Configs ==
    [brand_name : {"OC Integrative Medicine"},
     brand_abbrev : BrandAbbrevs,
     headline_eng : {"Motility Activator", "A very very very long headline"},
     headline_esp : {"Activador de la motilidad"},
     bg_color_hex : BgColors]

NoConfig ==
    [brand_name |-> "", brand_abbrev |-> <<>>, headline_eng |-> "",
     headline_esp |-> "", bg_color_hex |-> <<>>]

BannerIdle ==
    /\ b_pc = "idle"
    /\ cfg = NoConfig
    /\ b_iter = 0
    /\ results = <<>>
    /\ b_ret = <<>>

\* generate_all(cfg) is entered: results = []
GenerateAllCall ==
    /\ b_pc = "idle"
    /\ cfg' \in Configs
    /\ b_pc' = "loop"
    /\ b_iter' = 0
    /\ results' = <<>>
    /\ UNCHANGED <<b_ret, outside_banner>>

\* one body of: for lang in ("ENG", "ESP"): for w, h, has_hl in LARGE_SIZES
GenerateAllLoop ==
    /\ b_pc = "loop"
    /\ b_iter < Len(LANGS) * Len(LARGE_SIZES)
    /\ LET lang == LANGS[(b_iter \div Len(LARGE_SIZES)) + 1]
           size == LARGE_SIZES[(b_iter % Len(LARGE_SIZES)) + 1]
       IN  IF hex_to_rgb(cfg.bg_color_hex).err # ""
           THEN /\ b_pc' = "raised"
                /\ UNCHANGED <<b_iter, results>>
           ELSE /\ results' = results \o loop_body_entries(size, lang, cfg)
                /\ b_iter' = b_iter + 1
                /\ b_pc' = "loop"
    /\ UNCHANGED <<cfg, b_ret, outside_banner>>

\* return results
GenerateAllReturn ==
    /\ b_pc = "loop"
    /\ b_iter = Len(LANGS) * Len(LARGE_SIZES)
    /\ b_ret' = results
    /\ b_pc' = "done"
    /\ UNCHANGED <<cfg, b_iter, results, outside_banner>>

-----------------------------------------------------------------------------
(* story_engine: palettes, products and helpers *)

CHANNELS == {"@AmazonHome", "@AmazonBeauty", "@AmazonFashion", "@Amazon",
             "@Amazon.ca"}

\* the characters of a channel name
ChannelChars(ch) ==
    CASE ch = "@AmazonHome" -> <<"@", "A", "m", "a", "z", "o", "n", "H", "o", "m", "e">>
      [] ch = "@AmazonBeauty" -> <<"@", "A", "m", "a", "z", "o", "n", "B", "e", "a", "u", "t", "y">>
      [] ch = "@AmazonFashion" -> <<"@", "A", "m", "a", "z", "o", "n", "F", "a", "s", "h", "i", "o", "n">>
      [] ch = "@Amazon" -> <<"@", "A", "m", "a", "z", "o", "n">>
      [] ch = "@Amazon.ca" -> <<"@", "A", "m", "a", "z", "o", "n", ".", "c", "a">>

\* PALETTE[channel]["bg"] (for @AmazonBeauty also "bg_individual")
PALETTE_bg(ch) ==
    CASE ch = "@AmazonHome" -> <<"#", "F", "5", "F", "1", "E", "D">>
      [] ch = "@AmazonBeauty" -> <<"#", "D", "4", "E", "F", "E", "0">>
      [] ch = "@AmazonFashion" -> <<"#", "F", "0", "E", "B", "E", "6">>
      [] ch = "@Amazon" -> <<"#", "F", "5", "E", "6", "D", "C">>
      [] ch = "@Amazon.ca" -> <<"#", "F", "5", "E", "6", "D", "C">>

PALETTE_bg_individual == <<"#", "F", "5", "F", "8", "F", "6">>

\* PALETTE["@Amazon"]["gradients"]; PALETTE["@Amazon.ca"] lists the same six
PALETTE_gradients == <<
    <<<<"#", "F", "5", "E", "6", "D", "C">>, <<"#", "F", "0", "D", "4", "C", "8">>>>,
    <<<<"#", "E", "8", "E", "0", "F", "0">>, <<"#", "D", "8", "C", "C", "E", "8">>>>,
    <<<<"#", "F", "F", "F", "5", "D", "6">>, <<"#", "F", "F", "E", "D", "B", "A">>>>,
    <<<<"#", "D", "6", "E", "8", "F", "5">>, <<"#", "C", "0", "D", "8", "F", "0">>>>,
    <<<<"#", "D", "4", "E", "F", "E", "0">>, <<"#", "C", "0", "E", "8", "D", "0">>>>,
    <<<<"#", "F", "5", "F", "1", "E", "D">>, <<"#", "E", "D", "E", "5", "D", "8">>>> >>

\* _make_gradient(W, H, g[0], g[1]) for g = gradients[gradient_idx % len(gradients)]:
\* the raster is determined by its top and bottom colour
make_gradient(gradient_idx) ==
    LET g == PALETTE_gradients[(gradient_idx % Len(PALETTE_gradients)) + 1]
    IN  <<hex_to_rgb(g[1]).rgb, hex_to_rgb(g[2]).rgb>>

\* a solid canvas has no gradient
NoGradient == <<>>

MONTHS == <<"january", "february", "march", "april", "may", "june", "july",
            "august", "september", "october", "november", "december">>

\* fr_months (written here without the accents of fevrier, aout, decembre)
fr_months == <<"janvier", "fevrier", "mars", "avril", "mai", "juin", "juillet",
               "aout", "septembre", "octobre", "novembre", "decembre">>

\* datetime.now().strftime("%B").lower()
current_month(now) == MONTHS[now]

\* the calendar one reading later: the same month or the next one
Later(now) == {now, (now % 12) + 1}

\* dict.get(key, default)
Get(d, key, default) == IF key \in DOMAIN d THEN d[key] ELSE default

\* str.replace(old, new) for a one-character old
RECURSIVE replace(_, _, _)
replace(s, old, new) ==
    IF s = <<>> THEN <<>>
    ELSE (IF Head(s) = old THEN new ELSE <<Head(s)>>) \o replace(Tail(s), old, new)

\* str.split(): the maximal runs of non-whitespace characters
RECURSIVE split(_)
split(s) ==
    LET t == lstrip(s, Whitespace)
        n == IF \E k \in 1..Len(t) : t[k] \in Whitespace
             THEN (CHOOSE k \in 1..Len(t) :
                      t[k] \in Whitespace /\ \A j \in 1..(k - 1) : t[j] \notin Whitespace) - 1
             ELSE Len(t)
    IN  IF t = <<>> THEN <<>>
        ELSE <<SubSeq(t, 1, n)>> \o split(SubSeq(t, n + 1, Len(t)))

\* " ".join(words)
RECURSIVE join(_)
join(words) ==
    IF words = <<>> THEN <<>>
    ELSE IF Len(words) = 1 THEN words[1]
    ELSE words[1] \o <<" ">> \o join(Tail(words))

\* f"{n:02d}"
fmt02(n) == IF n < 10 THEN <<"0">> \o IntToStr(n) ELSE IntToStr(n)

\* product dicts: one with every key, one without an asin and without copy
ProductPool == {
    [asin |-> <<"B", "0", "A", "B", "1">>, image |-> 1,
     copy |-> <<"S", "m", "e", "l", "l", "s", " ", "a", "m", "a", "z", "i", "n", "g", " ", "a", "n", "d", " ", "l", "a", "s", "t", "s", " ", "a", "l", "l", " ", "d", "a", "y">>],
    [image |-> 2, copy |-> <<>>] }

ProductLists == UNION {[1..n -> ProductPool] : n \in 0..MaxProducts}

_pad_products_no_repeat(prods, count) ==
    IF prods = <<>> THEN <<>> ELSE SubSeq(prods, 1, Min(count, Len(prods)))

\* products * k: the list repeated k times
RECURSIVE Repeat(_, _)
Repeat(prods, k) == IF k <= 0 THEN <<>> ELSE prods \o Repeat(prods, k - 1)

\* _pad_products(products, count)
_pad_products(prods, count) ==
    IF prods = <<>> THEN <<>>
    ELSE IF Len(prods) >= count THEN Slice(prods, 0, count)
    ELSE Slice(Repeat(prods, (count \div Len(prods)) + 1), 0, count)

-----------------------------------------------------------------------------
(* story_engine: the collage and individual layouts *)

\* the (x, y, w, h) slot tables `positions` of the five collage layouts
positions(ch) ==
    CASE ch = "@AmazonHome" ->
            << <<60, 80, 350, 420>>, <<430, 50, 320, 380>>, <<760, 100, 280, 340>>,
               <<60, 960, 330, 400>>, <<420, 920, 320, 400>>, <<740, 980, 300, 380>> >>
      [] ch = "@AmazonBeauty" ->
            << <<80, 60, 400, 480>>, <<520, 30, 380, 460>>,
               <<60, 930, 420, 500>>, <<500, 960, 400, 480>> >>
      [] ch = "@AmazonFashion" ->
            << <<500, 40, 500, 600>>, <<40, 50, 400, 480>>, <<60, 1050, 460, 560>>,
               <<540, 1000, 480, 580>>, <<320, 540, 380, 460>> >>
      [] ch \in {"@Amazon", "@Amazon.ca"} ->
            << <<60, 60, 380, 460>>, <<480, 40, 360, 440>>, <<760, 80, 280, 360>>,
               <<60, 940, 360, 440>>, <<460, 920, 340, 420>>, <<740, 960, 300, 380>> >>

\* product_data.get("copy") is truthy
HasCopy(prod) == Get(prod, "copy", <<>>) # <<>>

\* the products placed on a collage: display = _pad_products(products, len(positions)),
\* each in its slot; only the @AmazonHome collage writes a note (copy[:25])
collage_display(ch, prods) ==
    LET display == _pad_products(prods, Len(positions(ch)))
    IN  [idx \in 1..Len(display) |->
            [slot |-> positions(ch)[idx],
             image |-> display[idx].image,
             note |-> IF ch = "@AmazonHome" /\ HasCopy(display[idx])
                      THEN Slice(display[idx].copy, 0, 25) ELSE <<>>]]

\* builders["collage"] of the channel: _home_collage, _beauty_collage,
\* _fashion_collage, _amazon_collage, _ca_collage.  No builder reads theme_name;
\* only _ca_collage reads lang.  `now` is the month the clock reports.
build_collage(ch, prods, theme, lang, gradient_idx, now) ==
    [kind |-> "collage",
     style |-> ch,
     bg |-> IF ch \in {"@Amazon", "@Amazon.ca"} THEN <<>>
            ELSE hex_to_rgb(PALETTE_bg(ch)).rgb,
     gradient |-> IF ch \in {"@Amazon", "@Amazon.ca"}
                  THEN make_gradient(gradient_idx) ELSE NoGradient,
     month |-> IF ch = "@AmazonFashion" THEN ""
               ELSE IF ch = "@Amazon.ca" /\ lang = "fr" THEN fr_months[now]
               ELSE current_month(now),
     title |-> IF ch = "@AmazonFashion" THEN "JUST DROPPED"
               ELSE IF ch = "@Amazon.ca" /\ lang = "fr" THEN "Tout juste sorti"
               ELSE "Just Dropped",
     display |-> collage_display(ch, prods)]

\* the handwritten notes of an individual frame
individual_notes_35(ch, prod) ==
    IF ~HasCopy(prod) THEN <<>> ELSE <<Slice(prod.copy, 0, 35)>>

individual_notes(ch, prod) ==
    IF ~HasCopy(prod) THEN <<>>
    ELSE IF ch = "@AmazonHome" THEN <<Slice(prod.copy, 0, 35)>>
    ELSE IF ch = "@AmazonFashion"
         THEN LET words == split(prod.copy)
              IN  IF Len(words) > 4
                  THEN <<join(Slice(words, 0, 3)), join(Slice(words, 3, 6))>>
                  ELSE <<Slice(prod.copy, 0, 30)>>
    ELSE <<Slice(prod.copy, 0, 30)>>

\* builders["individual"] of the channel: _home_individual, _beauty_individual,
\* _fashion_individual, _amazon_individual, _ca_individual.  No builder reads
\* frame_num and none reads lang.
build_individual(ch, prod, frame_num, lang, gradient_idx) ==
    [kind |-> "individual",
     style |-> ch,
     bg |-> IF ch \in {"@Amazon", "@Amazon.ca"} THEN <<>>
            ELSE IF ch = "@AmazonBeauty" THEN hex_to_rgb(PALETTE_bg_individual).rgb
            ELSE hex_to_rgb(PALETTE_bg(ch)).rgb,
     gradient |-> IF ch \in {"@Amazon", "@Amazon.ca"}
                  THEN make_gradient(gradient_idx) ELSE NoGradient,
     image |-> prod.image,
     notes |-> individual_notes(ch, prod),
     copy |-> Get(prod, "copy", <<>>)]

-----------------------------------------------------------------------------
(* story_engine.generate_franchise_frames *)

\* channel.replace("@", "").replace(".", "_")
safe_channel(ch) == replace(replace(ChannelChars(ch), "@", <<>>), ".", <<"_">>)

\* f"{folder}/Frame_{n:02d}_Collage.png"
collage_path(folder, n) ==
    folder \o <<"/", "F", "r", "a", "m", "e", "_">> \o fmt02(n)
        \o <<"_", "C", "o", "l", "l", "a", "g", "e", ".", "p", "n", "g">>

individual_path_off_by_one(folder, i, prod) ==
    folder \o <<"/", "F", "r", "a", "m", "e", "_">> \o fmt02(i + 1) \o <<"_">>
        \o Get(prod, "asin", <<"P", "r", "o", "d", "u", "c", "t", "_">> \o IntToStr(i + 1))
        \o <<".", "p", "n", "g">>

\* f"{folder}/Frame_{i+2:02d}_{prod.get('asin', f'Product_{i+1}')}.png"
individual_path(folder, i, prod) ==
    folder \o <<"/", "F", "r", "a", "m", "e", "_">> \o fmt02(i + 2) \o <<"_">>
        \o Get(prod, "asin", <<"P", "r", "o", "d", "u", "c", "t", "_">> \o IntToStr(i + 1))
        \o <<".", "p", "n", "g">>

individual_gradient_idx_next(gradient_idx, i) == (gradient_idx + i + 1) % 6

\* gradient_idx=(gradient_idx + i) % 6
individual_gradient_idx(gradient_idx, i) == (gradient_idx + i) % 6

duplicate_entries_none(folder, n, collage) == <<>>

\* the last frame: the collage canvas saved a second time
duplicate_entries(folder, n, collage) ==
    << [path |-> collage_path(folder, n + 2), image |-> collage] >>

has_french_set_amazon_family(ch) == ch \in {"@Amazon", "@Amazon.ca"}

\* if channel == "@Amazon.ca": also generate French versions
has_french_set(ch) == ch = "@Amazon.ca"

\* f"{safe_channel}_FR"
fr_folder(ch) == safe_channel(ch) \o <<"_", "F", "R">>

Themes == {"Just Dropped", "Spring Refresh"}

NoCanvas == [kind |-> "none"]

StoryIdle ==
    /\ s_pc = "idle"
    /\ channel = ""
    /\ products = <<>>
    /\ theme_name = ""
    /\ s_results = <<>>
    /\ s_i = 0
    /\ collage_en = NoCanvas
    /\ collage_fr = NoCanvas
    /\ s_ret = <<>>
    /\ clock = 12

StoryInit == StoryIdle

\* generate_franchise_frames(channel, products, theme_name) is entered
FramesCall ==
    /\ s_pc = "idle"
    /\ channel' \in CHANNELS
    /\ products' \in ProductLists
    /\ theme_name' \in Themes
    /\ s_pc' = "collage"
    /\ UNCHANGED <<s_results, s_i, collage_en, collage_fr, s_ret, clock,
                   outside_story>>

\* Frame 1: the collage is built (gradient_idx = 0) and saved
FramesCollage ==
    /\ s_pc = "collage"
    /\ clock' \in Later(clock)
    /\ collage_en' = build_collage(channel, products, theme_name, "en", 0, clock')
    /\ s_results' = s_results \o
           << [path |-> collage_path(safe_channel(channel), 1), image |-> collage_en'] >>
    /\ s_i' = 0
    /\ s_pc' = "individual"
    /\ UNCHANGED <<channel, products, theme_name, collage_fr, s_ret,
                   outside_story>>

\* one body of: for i, prod in enumerate(products)
FramesIndividual ==
    /\ s_pc = "individual"
    /\ s_i < Len(products)
    /\ LET prod == products[s_i + 1]
           frame == build_individual(channel, prod, s_i + 1, "en",
                                     individual_gradient_idx(0, s_i))
       IN  s_results' = s_results \o
               << [path |-> individual_path(safe_channel(channel), s_i, prod),
                   image |-> frame] >>
    /\ s_i' = s_i + 1
    /\ UNCHANGED <<s_pc, channel, products, theme_name, collage_en, collage_fr,
                   s_ret, clock, outside_story>>

\* Last frame: duplicate of Frame 1
FramesDuplicate ==
    /\ s_pc = "individual"
    /\ s_i = Len(products)
    /\ s_results' = s_results \o
           duplicate_entries(safe_channel(channel), Len(products), collage_en)
    /\ s_pc' = IF has_french_set(channel) THEN "collage_fr" ELSE "return"
    /\ UNCHANGED <<channel, products, theme_name, s_i, collage_en, collage_fr,
                   s_ret, clock, outside_story>>

\* the French collage (gradient_idx = 0) is built and saved
FramesCollageFr ==
    /\ s_pc = "collage_fr"
    /\ clock' \in Later(clock)
    /\ collage_fr' = build_collage(channel, products, theme_name, "fr", 0, clock')
    /\ s_results' = s_results \o
           << [path |-> collage_path(fr_folder(channel), 1), image |-> collage_fr'] >>
    /\ s_i' = 0
    /\ s_pc' = "individual_fr"
    /\ UNCHANGED <<channel, products, theme_name, collage_en, s_ret,
                   outside_story>>

\* one body of the French loop: for i, prod in enumerate(products)
FramesIndividualFr ==
    /\ s_pc = "individual_fr"
    /\ s_i < Len(products)
    /\ LET prod == products[s_i + 1]
           frame_fr == build_individual(channel, prod, s_i + 1, "fr",
                                        individual_gradient_idx(0, s_i))
       IN  s_results' = s_results \o
               << [path |-> individual_path(fr_folder(channel), s_i, prod),
                   image |-> frame_fr] >>
    /\ s_i' = s_i + 1
    /\ UNCHANGED <<s_pc, channel, products, theme_name, collage_en, collage_fr,
                   s_ret, clock, outside_story>>

\* the French collage saved a second time
FramesDuplicateFr ==
    /\ s_pc = "individual_fr"
    /\ s_i = Len(products)
    /\ s_results' = s_results \o
           duplicate_entries(fr_folder(channel), Len(products), collage_fr)
    /\ s_pc' = "return"
    /\ UNCHANGED <<channel, products, theme_name, s_i, collage_en, collage_fr,
                   s_ret, clock, outside_story>>

\* return results
FramesReturn ==
    /\ s_pc = "return"
    /\ s_ret' = s_results
    /\ s_pc' = "done"
    /\ UNCHANGED <<channel, products, theme_name, s_results, s_i, collage_en,
                   collage_fr, clock, outside_story>>

-----------------------------------------------------------------------------
(* story_engine._pad_products *)

PadIdle ==
    /\ p_pc = "idle"
    /\ p_products = <<>>
    /\ p_orig = <<>>
    /\ p_count = 0
    /\ p_out = <<>>

PadInit ==
    /\ p_pc = "call"
    /\ p_products \in ProductLists
    /\ p_orig = p_products
    /\ p_count \in 0..MaxCount
    /\ p_out = <<>>

\* one call _pad_products(p_products, p_count): slicing and repetition build a
\* new list and leave the argument as it was
PadCall ==
    /\ p_pc = "call"
    /\ p_out' = _pad_products(p_products, p_count)
    /\ p_pc' = "done"
    /\ UNCHANGED <<p_products, p_orig, p_count, outside_pad>>

-----------------------------------------------------------------------------
(* fit_image: the scale factor and the sizes are Python floats (IEEE-754     *)
(* doubles, 53-bit significand, round to nearest even).  The doubles are   *)
(* followed exactly, with integer arithmetic on the remainders.            *)

Max(a, b) == IF a >= b THEN a ELSE b

\* bits of the significand of a Python float
MantissaBits == 53

RECURSIVE Pow2(_)
Pow2(n) == IF n = 0 THEN 1 ELSE 2 * Pow2(n - 1)

\* floor(log2(x)) for x >= 1
RECURSIVE ILog2(_)
ILog2(x) == IF x < 2 THEN 0 ELSE 1 + ILog2(x \div 2)

\* the least c with m * 2^c >= n
RECURSIVE ShiftUp(_, _)
ShiftUp(m, n) == IF m >= n THEN 0 ELSE 1 + ShiftUp(2 * m, n)

\* (r * 2^k) mod n
RECURSIVE ShiftMod(_, _, _)
ShiftMod(r, k, n) == IF k = 0 THEN r % n ELSE ShiftMod((2 * r) % n, k - 1, n)

\* binary exponent of the quotient m / n: the a with 2^a <= m / n < 2^(a + 1)
quotient_exponent(m, n) == IF m >= n THEN ILog2(m \div n) ELSE 0 - ShiftUp(m, n)

\* the float m / n is q / 2^k or (q + 1) / 2^k, where m * 2^k = q * n + r and
\* k = 52 - quotient_exponent(m, n); the result is the integer d with
\*     float(m / n) = m / n + d / (n * 2^k)
float_div_error(m, n) ==
    LET k == (MantissaBits - 1) - quotient_exponent(m, n)
        r == ShiftMod(m, k, n)
        q_odd == ShiftMod(m, k, 2 * n) >= n
        up == IF 2 * r > n \/ (2 * r = n /\ q_odd) THEN 1 ELSE 0
    IN  up * n - r

\* int(dim * ratio) for the float ratio = m / n: the product
\* dim * m / n + dim * d / (n * 2^k) rounded to a float, then truncated.  A
\* product that is not a whole number is too far from one for the rounding
\* to cross it; a whole number N is missed from below when the error is more
\* than half the gap between N and the float before it.
float_scale(dim, m, n) ==
    LET a == quotient_exponent(m, n)
        d == float_div_error(m, n)
        N == (dim * m) \div n
        e == ILog2(N)
        ex == 1 + (IF N = Pow2(e) THEN 1 ELSE 0) - e + a
        lhs == dim * (0 - d) * (IF ex >= 0 THEN Pow2(ex) ELSE 1)
        rhs == n * (IF ex < 0 THEN Pow2(0 - ex) ELSE 1)
    IN  IF (dim * m) % n # 0 \/ d >= 0 THEN N
        ELSE IF lhs > rhs THEN N - 1 ELSE N

\* ratio = min(max_w / img.width, max_h / img.height); the size is
\* (max(1, int(img.width * ratio)), max(1, int(img.height * ratio)))
fit_image(img, max_w, max_h) ==
    LET by_width == max_w * img.height <= max_h * img.width
        m == IF by_width THEN max_w ELSE max_h
        n == IF by_width THEN img.width ELSE img.height
    IN  [width |-> Max(1, float_scale(img.width, m, n)),
         height |-> Max(1, float_scale(img.height, m, n))]

NoSize == [width |-> 0, height |-> 0]

FitIdle ==
    /\ f_pc = "idle"
    /\ f_img = NoSize
    /\ f_max_w = 0
    /\ f_max_h = 0
    /\ f_out = NoSize

FitInit ==
    /\ f_pc = "call"
    /\ f_img \in [width : 1..MaxDim, height : 1..MaxDim]
    /\ f_max_w \in 1..MaxBox
    /\ f_max_h \in 1..MaxBox
    /\ f_out = NoSize

FitCall ==
    /\ f_pc = "call"
    /\ f_out' = fit_image(f_img, f_max_w, f_max_h)
    /\ f_pc' = "done"
    /\ UNCHANGED <<f_img, f_max_w, f_max_h, outside_fit>>

-----------------------------------------------------------------------------
(* trim_transparent: an image is its mode, its size and its rows of pixels; *)
(* a pixel is <<r, g, b, a>> in mode RGBA and <<r, g, b>> in mode RGB.       *)

\* img.convert("RGBA"): an RGB pixel becomes opaque
convert_rgba(img) ==
    IF img.mode = "RGBA" THEN img
    ELSE [img EXCEPT !.mode = "RGBA",
                     !.px = [y \in 1..img.height |->
                                [x \in 1..img.width |->
                                    img.px[y][x] \o <<255>>]]]

\* content = alpha_mask & color_mask, for one pixel
is_content_any_alpha(p) ==
    p[4] > 0 /\ ~(p[1] > 240 /\ p[2] > 240 /\ p[3] > 240)

is_content(p) ==
    p[4] > 10 /\ ~(p[1] > 240 /\ p[2] > 240 /\ p[3] > 240)

\* np.any(content, axis=1) and np.any(content, axis=0), as index sets (0-based)
content_rows(img) ==
    {y \in 0..(img.height - 1) :
        \E x \in 1..img.width : is_content(img.px[y + 1][x])}

content_cols(img) ==
    {x \in 0..(img.width - 1) :
        \E y \in 1..img.height : is_content(img.px[y][x + 1])}

SetMin(S) == CHOOSE m \in S : \A n \in S : m <= n

SetMax(S) == CHOOSE m \in S : \A n \in S : m >= n

\* the box handed to img.crop: (cmin, rmin, cmax + 1, rmax + 1)
crop_box_inclusive(img) ==
    [left |-> SetMin(content_cols(img)), upper |-> SetMin(content_rows(img)),
     right |-> SetMax(content_cols(img)), lower |-> SetMax(content_rows(img))]

crop_box(img) ==
    [left |-> SetMin(content_cols(img)), upper |-> SetMin(content_rows(img)),
     right |-> SetMax(content_cols(img)) + 1,
     lower |-> SetMax(content_rows(img)) + 1]

\* Image.crop(box): the pixels of the box, in place
crop(img, box) ==
    [mode |-> img.mode,
     width |-> box.right - box.left,
     height |-> box.lower - box.upper,
     px |-> [y \in 1..(box.lower - box.upper) |->
                [x \in 1..(box.right - box.left) |->
                    img.px[y + box.upper][x + box.left]]]]

trim_transparent(img) ==
    LET rgba == convert_rgba(img)
    IN  IF content_rows(rgba) = {} THEN rgba ELSE crop(rgba, crop_box(rgba))

\* pixels drawn as content: opaque black, and the last values that still are
\* content (alpha 11, one channel at 240)
ContentPixels == {<<0, 0, 0, 255>>, <<240, 255, 255, 11>>}

\* pixels drawn as border: opaque white, the first near-white (241), and the
\* last alpha that is transparent (10)
BlankPixels == {<<255, 255, 255, 255>>, <<241, 241, 241, 255>>, <<0, 0, 0, 10>>}

Modes == {"RGBA", "RGB"}

\* the image of size w x h whose cells in mask hold the pixel c and whose other
\* cells hold b1 and b2 in a checkerboard; mode RGB drops the alpha channel
MakeImage(mode, w, h, mask, c, b1, b2) ==
    [mode |-> mode, width |-> w, height |-> h,
     px |-> [y \in 1..h |-> [x \in 1..w |->
                LET p == IF <<x, y>> \in mask THEN c
                         ELSE IF (x + y) % 2 = 0 THEN b1 ELSE b2
                IN  IF mode = "RGBA" THEN p ELSE SubSeq(p, 1, 3)]]]

NoImage == [mode |-> "", width |-> 0, height |-> 0, px |-> <<>>]

TrimIdle ==
    /\ t_pc = "idle"
    /\ t_img = NoImage
    /\ t_once = NoImage
    /\ t_twice = NoImage

TrimInit ==
    /\ t_pc = "call"
    /\ \E w \in 1..MaxCells : \E h \in {k \in 1..MaxCells : w * k <= MaxCells} :
       \E mask \in SUBSET ((1..w) \X (1..h)) :
       \E mode \in Modes, c \in ContentPixels, b1 \in BlankPixels, b2 \in BlankPixels :
            t_img = MakeImage(mode, w, h, mask, c, b1, b2)
    /\ t_once = NoImage
    /\ t_twice = NoImage

TrimCall ==
    /\ t_pc = "call"
    /\ t_once' = trim_transparent(t_img)
    /\ t_pc' = "once"
    /\ UNCHANGED <<t_img, t_twice, outside_trim>>

TrimAgain ==
    /\ t_pc = "once"
    /\ t_twice' = trim_transparent(t_once)
    /\ t_pc' = "twice"
    /\ UNCHANGED <<t_img, t_once, outside_trim>>

-----------------------------------------------------------------------------
(* _build_headline_banner: the shrink-to-fit loop of the headline font.     *)
(* A headline text is known by its advance width in font units (1/1000 of  *)
(* the font size), which is what the measurement of the loop depends on.   *)

\* int(n * 0.k) for a percentage k; the float product of the sizes in
\* LARGE_SIZES truncates to the same integer
pct(n, k) == (n * k) \div 100

\* draw.textbbox((0, 0), hl_txt, font=hl_font)[2]: the text width in pixels
\* at a font size
textbbox_width(adv, size) == (adv * size) \div 1000

\* one step of advance width: about five characters of the bold face
AdvStep == 2500

Headlines == {k * AdvStep : k \in 0..MaxAdvSteps}

\* hl_font before the loop has bound it
NoFont == 0

\* hl_size = max(int(h * 0.40), 16)
start_size_unfloored(h) == pct(h, 40)

start_size(h) == Max(pct(h, 40), 16)

\* banner heights: the height of LARGE_SIZES, and heights whose 40% is below,
\* at and above the least starting size
HeadlineHeights == {LARGE_SIZES[i].h : i \in 1..Len(LARGE_SIZES)} \cup {1, 20, 45, 100}

HeadlineIdle ==
    /\ hl_pc = "idle"
    /\ hl_w = 0
    /\ hl_h = 0
    /\ hl_txt = 0
    /\ hl_zone_w = 0
    /\ hl_size = 0
    /\ hl_font = NoFont
    /\ hl_drawn = 0
    /\ hl_decrements = 0

HeadlineInit ==
    /\ hl_pc = "call"
    /\ \E i \in 1..Len(LARGE_SIZES) :
        /\ LARGE_SIZES[i].has_hl
        /\ hl_w = LARGE_SIZES[i].w
        /\ hl_h = LARGE_SIZES[i].h
    /\ hl_txt \in Headlines
    /\ hl_zone_w = 0
    /\ hl_size = 0
    /\ hl_font = NoFont
    /\ hl_drawn = 0
    /\ hl_decrements = 0

\* a call of the builder with a height of its own
HeadlineInitAnyHeight ==
    /\ hl_pc = "call"
    /\ \E i \in 1..Len(LARGE_SIZES) :
        /\ LARGE_SIZES[i].has_hl
        /\ hl_w = LARGE_SIZES[i].w
    /\ hl_h \in HeadlineHeights
    /\ hl_txt \in Headlines
    /\ hl_zone_w = 0
    /\ hl_size = 0
    /\ hl_font = NoFont
    /\ hl_drawn = 0
    /\ hl_decrements = 0

\* lines 111-138: the zones and the starting size
HeadlineCall ==
    /\ hl_pc = "call"
    /\ hl_zone_w' = pct(hl_w, 62) - pct(hl_w, 17)
    /\ hl_size' = start_size(hl_h)
    /\ hl_pc' = "loop"
    /\ UNCHANGED <<hl_w, hl_h, hl_txt, hl_font, hl_drawn, hl_decrements,
                   outside_headline>>

\* lines 139-144: one pass of the body of `while hl_size > 8`
HeadlineMeasure ==
    /\ hl_pc = "loop"
    /\ hl_size > 8
    /\ hl_font' = hl_size
    /\ IF textbbox_width(hl_txt, hl_size) <= hl_zone_w
       THEN hl_pc' = "draw" /\ UNCHANGED <<hl_size, hl_decrements>>
       ELSE /\ hl_size' = hl_size - 1
            /\ hl_decrements' = hl_decrements + 1
            /\ UNCHANGED hl_pc
    /\ UNCHANGED <<hl_w, hl_h, hl_txt, hl_zone_w, hl_drawn, outside_headline>>

\* line 139: the loop condition fails
HeadlineLoopExit ==
    /\ hl_pc = "loop"
    /\ hl_size <= 8
    /\ hl_pc' = "draw"
    /\ UNCHANGED <<hl_w, hl_h, hl_txt, hl_zone_w, hl_size, hl_font, hl_drawn,
                   hl_decrements, outside_headline>>

\* lines 153-162: the headline is measured and drawn with hl_font
HeadlineDraw ==
    /\ hl_pc = "draw"
    /\ hl_drawn' = hl_font
    /\ hl_pc' = "done"
    /\ UNCHANGED <<hl_w, hl_h, hl_txt, hl_zone_w, hl_size, hl_font,
                   hl_decrements, outside_headline>>

-----------------------------------------------------------------------------
(* One call of an individual builder (_home_individual, _beauty_individual, *)
(* _fashion_individual, _amazon_individual, _ca_individual) on a product    *)
(* whose copy text has any length up to MaxCopy.                            *)

CopyText ==
    <<"S", "m", "e", "l", "l", "s", " ", "a", "m", "a", "z", "i", "n", "g", " ",
      "a", "n", "d", " ", "l", "a", "s", "t", "s", " ", "a", "l", "l", " ",
      "d", "a", "y", " ", "a", "n", "d", " ", "n", "i", "g", "h", "t">>

\* product dicts with a copy of every length, and one without the key
CopyProducts ==
    {[image |-> 1, copy |-> Slice(CopyText, 0, n)] : n \in 0..MaxCopy}
        \cup {[image |-> 1]}

IndividualIdle ==
    /\ i_pc = "idle"
    /\ i_channel = ""
    /\ i_product = [image |-> 0]
    /\ i_frame = NoCanvas

IndividualInit ==
    /\ i_pc = "call"
    /\ i_channel \in CHANNELS
    /\ i_product \in CopyProducts
    /\ i_frame = NoCanvas

IndividualCall ==
    /\ i_pc = "call"
    /\ i_frame' = build_individual(i_channel, i_product, 1, "en", 0)
    /\ i_pc' = "done"
    /\ UNCHANGED <<i_channel, i_product, outside_individual>>

-----------------------------------------------------------------------------
(* story_engine._draw_text_block: the word wrap *)

\* str.strip(): whitespace dropped at both ends
strip(s) == rstrip(lstrip(s, Whitespace), Whitespace)

\* the advance of one character of the font, in pixels
char_width(c) == IF c = "W" THEN 3 ELSE 1

\* draw.textbbox((0, 0), test, font=font)[2]: the width of a text
RECURSIVE textbbox_right(_)
textbbox_right(s) ==
    IF s = <<>> THEN 0 ELSE char_width(Head(s)) + textbbox_right(Tail(s))

\* if tw <= max_width
fits_strictly(tw, max_width) == tw < max_width

fits(tw, max_width) == tw <= max_width

TextChars == {"i", "W", " "}

Texts == UNION {[1..n -> TextChars] : n \in 0..MaxText}

WrapIdle ==
    /\ w_pc = "idle"
    /\ w_text = <<>>
    /\ w_max_width = 0
    /\ w_words = <<>>
    /\ w_k = 0
    /\ w_lines = <<>>
    /\ w_current_line = <<>>

WrapInit ==
    /\ w_pc = "call"
    /\ w_text \in Texts
    /\ w_max_width \in 0..MaxWidth
    /\ w_words = <<>>
    /\ w_k = 0
    /\ w_lines = <<>>
    /\ w_current_line = <<>>

\* lines 127-130: without a max_width the text is drawn as it is, on one line
WrapNone ==
    /\ w_pc = "call"
    /\ w_max_width = 0
    /\ w_lines' = <<w_text>>
    /\ w_pc' = "done"
    /\ UNCHANGED <<w_text, w_max_width, w_words, w_k, w_current_line,
                   outside_wrap>>

\* lines 132-134
WrapCall ==
    /\ w_pc = "call"
    /\ w_max_width # 0
    /\ w_words' = split(w_text)
    /\ w_lines' = <<>>
    /\ w_current_line' = <<>>
    /\ w_k' = 0
    /\ w_pc' = "loop"
    /\ UNCHANGED <<w_text, w_max_width, outside_wrap>>

\* lines 135-143: the loop body for the next word
WrapWord ==
    /\ w_pc = "loop"
    /\ w_k < Len(w_words)
    /\ LET word == w_words[w_k + 1]
           test == strip(w_current_line \o <<" ">> \o word)
           tw == textbbox_right(test)
       IN  IF fits(tw, w_max_width)
           THEN /\ w_current_line' = test
                /\ UNCHANGED w_lines
           ELSE /\ w_lines' = IF w_current_line # <<>>
                              THEN Append(w_lines, w_current_line) ELSE w_lines
                /\ w_current_line' = word
    /\ w_k' = w_k + 1
    /\ UNCHANGED <<w_pc, w_text, w_max_width, w_words, outside_wrap>>

\* lines 144-145: the last line
WrapFlush ==
    /\ w_pc = "loop"
    /\ w_k = Len(w_words)
    /\ w_lines' = IF w_current_line # <<>>
                  THEN Append(w_lines, w_current_line) ELSE w_lines
    /\ w_pc' = "done"
    /\ UNCHANGED <<w_text, w_max_width, w_words, w_k, w_current_line,
                   outside_wrap>>

-----------------------------------------------------------------------------
(* A second call of generate_franchise_frames with the same channel and    *)
(* products and another theme_name, as generate_all_franchises or the page *)
(* makes it when the theme of a channel is changed.                        *)

RecallIdle ==
    /\ r_calls = 0
    /\ first_theme = ""
    /\ first_ret = <<>>

\* the returned list is kept and the function is entered again
FramesRecall ==
    /\ s_pc = "done"
    /\ r_calls = 0
    /\ r_calls' = 1
    /\ first_theme' = theme_name
    /\ first_ret' = s_ret
    /\ theme_name' \in Themes \ {theme_name}
    /\ s_pc' = "collage"
    /\ s_results' = <<>>
    /\ s_i' = 0
    /\ collage_en' = NoCanvas
    /\ collage_fr' = NoCanvas
    /\ s_ret' = <<>>
    /\ UNCHANGED <<channel, products, clock, outside_story_recall>>

-----------------------------------------------------------------------------
(* story_themes._extract_themes_from_results.  Titles, descriptions and    *)
(* keywords are character sequences; the fixed sentences of a rationale are *)
(* kept as whole pieces of text between the computed ones.                  *)

UpperLetters == <<"A", "B", "C", "D", "E", "F", "G", "H", "I", "J", "K", "L", "M",
                  "N", "O", "P", "Q", "R", "S", "T", "U", "V", "W", "X", "Y", "Z">>

LowerLetters == <<"a", "b", "c", "d", "e", "f", "g", "h", "i", "j", "k", "l", "m",
                  "n", "o", "p", "q", "r", "s", "t", "u", "v", "w", "x", "y", "z">>

\* str.lower()
str_lower(s) ==
    [k \in 1..Len(s) |->
        IF \E j \in 1..26 : UpperLetters[j] = s[k]
        THEN LowerLetters[CHOOSE j \in 1..26 : UpperLetters[j] = s[k]]
        ELSE s[k]]

\* kw in s
contains(s, kw) ==
    \E i \in 0..(Len(s) - Len(kw)) : SubSeq(s, i + 1, i + Len(kw)) = kw

_current_season(month) ==
    IF month \in {3, 4, 5} THEN <<"S", "p", "r", "i", "n", "g">>
    ELSE IF month \in {6, 7, 8} THEN <<"S", "u", "m", "m", "e", "r">>
    ELSE IF month \in {9, 10, 11} THEN <<"F", "a", "l", "l">>
    ELSE <<"W", "i", "n", "t", "e", "r">>

\* the theme templates of a channel (the dash of "Picks - Canada" stands for
\* the en dash of the source)
theme_templates(ch, season, year) ==
    IF ch = "@AmazonHome" THEN <<
        [name |-> season \o <<" Refresh">>,
         rationale |-> <<"Seasonal home refresh is a top trend for ">>
                \o season
                \o <<" ">>
                \o IntToStr(year)
                \o <<". Pinterest and TikTok show high engagement with room makeover content.">>,
         keywords |-> <<str_lower(season), <<"r", "e", "f", "r", "e", "s", "h">>, <<"h", "o", "m", "e">>, <<"d", "e", "c", "o", "r">>>>],
        [name |-> <<"Cozy Minimalism">>,
         rationale |-> <<"Clean, warm aesthetics with neutral tones continue trending. Aligns with @AmazonHome's beige/cream visual identity.">>,
         keywords |-> <<<<"m", "i", "n", "i", "m", "a", "l", "i", "s", "t">>, <<"c", "o", "z", "y">>, <<"n", "e", "u", "t", "r", "a", "l">>, <<"w", "a", "r", "m">>>>],
        [name |-> <<"Elevated Essentials">>,
         rationale |-> <<"Trending: upgrading everyday home items to premium versions. TikTok 'home upgrade' content drives discovery.">>,
         keywords |-> <<<<"u", "p", "g", "r", "a", "d", "e">>, <<"e", "s", "s", "e", "n", "t", "i", "a", "l", "s">>, <<"e", "l", "e", "v", "a", "t", "e", "d">>, <<"p", "r", "e", "m", "i", "u", "m">>>>] >>
    ELSE IF ch = "@AmazonBeauty" THEN <<
        [name |-> season \o <<" Glow">>,
         rationale |-> <<"Seasonal beauty routines are trending for ">>
                \o season
                \o <<" ">>
                \o IntToStr(year)
                \o <<". Skincare and glow-focused content dominates TikTok.">>,
         keywords |-> <<str_lower(season), <<"g", "l", "o", "w">>, <<"s", "k", "i", "n", "c", "a", "r", "e">>, <<"r", "o", "u", "t", "i", "n", "e">>>>],
        [name |-> <<"Clean Beauty Essentials">>,
         rationale |-> <<"Clean and sustainable beauty continues to grow. Matches @AmazonBeauty's fresh mint aesthetic.">>,
         keywords |-> <<<<"c", "l", "e", "a", "n">>, <<"b", "e", "a", "u", "t", "y">>, <<"s", "u", "s", "t", "a", "i", "n", "a", "b", "l", "e">>, <<"f", "r", "e", "s", "h">>>>],
        [name |-> <<"TikTok Viral Picks">>,
         rationale |-> <<"Products going viral on TikTok drive massive Amazon search traffic. Curating viral picks builds relevance.">>,
         keywords |-> <<<<"v", "i", "r", "a", "l">>, <<"t", "r", "e", "n", "d", "i", "n", "g">>, <<"t", "i", "k", "t", "o", "k">>, <<"p", "i", "c", "k", "s">>>>] >>
    ELSE IF ch = "@AmazonFashion" THEN <<
        [name |-> season \o <<" Edit">>,
         rationale |-> <<"Seasonal fashion edits are a staple format. ">>
                \o season
                \o <<" ">>
                \o IntToStr(year)
                \o <<" shows strong interest in transitional pieces.">>,
         keywords |-> <<str_lower(season), <<"e", "d", "i", "t">>, <<"s", "t", "y", "l", "e">>, <<"o", "u", "t", "f", "i", "t">>>>],
        [name |-> <<"Quiet Luxury">>,
         rationale |-> <<"The quiet luxury trend continues with understated, high-quality pieces. Aligns with @AmazonFashion's editorial tone.">>,
         keywords |-> <<<<"q", "u", "i", "e", "t", " ", "l", "u", "x", "u", "r", "y">>, <<"e", "l", "e", "v", "a", "t", "e", "d">>, <<"u", "n", "d", "e", "r", "s", "t", "a", "t", "e", "d">>, <<"q", "u", "a", "l", "i", "t", "y">>>>],
        [name |-> <<"Street Style Selects">>,
         rationale |-> <<"Street style and casual-cool looks remain highly engaging. Pinterest street style boards drive outfit inspiration.">>,
         keywords |-> <<<<"s", "t", "r", "e", "e", "t", " ", "s", "t", "y", "l", "e">>, <<"c", "a", "s", "u", "a", "l">>, <<"c", "o", "o", "l">>, <<"s", "e", "l", "e", "c", "t", "s">>>>] >>
    ELSE IF ch = "@Amazon" THEN <<
        [name |-> <<"Best of ">> \o season,
         rationale |-> <<"General seasonal curation across categories. Broad appeal for @Amazon's diverse audience.">>,
         keywords |-> <<str_lower(season), <<"b", "e", "s", "t">>, <<"p", "i", "c", "k", "s">>, <<"n", "e", "w">>>>],
        [name |-> <<"Viral Finds">>,
         rationale |-> <<"Cross-category viral products drive high engagement. TikTok-to-Amazon pipeline is a proven discovery channel.">>,
         keywords |-> <<<<"v", "i", "r", "a", "l">>, <<"f", "i", "n", "d", "s">>, <<"t", "r", "e", "n", "d", "i", "n", "g">>, <<"d", "i", "s", "c", "o", "v", "e", "r">>>>],
        [name |-> <<"New & Notable">>,
         rationale |-> <<"Fresh product launches across categories. Positions @Amazon as the go-to for discovery.">>,
         keywords |-> <<<<"n", "e", "w">>, <<"n", "o", "t", "a", "b", "l", "e">>, <<"l", "a", "u", "n", "c", "h">>, <<"j", "u", "s", "t", " ", "d", "r", "o", "p", "p", "e", "d">>>>] >>
    ELSE <<
        [name |-> season \o <<" Picks - Canada">>,
         rationale |-> <<"Seasonal curation tailored for Canadian customers. Localised content with Canadian spelling and French versions.">>,
         keywords |-> <<str_lower(season), <<"c", "a", "n", "a", "d", "a">>, <<"p", "i", "c", "k", "s">>, <<"n", "e", "w">>>>],
        [name |-> <<"Canadian Favourites">>,
         rationale |-> <<"Highlighting products popular with Canadian shoppers. Builds local relevance for @Amazon.ca.">>,
         keywords |-> <<<<"f", "a", "v", "o", "u", "r", "i", "t", "e", "s">>, <<"c", "a", "n", "a", "d", "a">>, <<"p", "o", "p", "u", "l", "a", "r">>, <<"t", "r", "e", "n", "d", "i", "n", "g">>>>] >>

\* matching[0]
last_matching(matching) == matching[Len(matching)]

first_matching(matching) == matching[1]

_extract_themes_from_results(rs, ch, month, year) ==
    LET signals == [i \in 1..Len(rs) |->
                        str_lower(rs[i].title \o <<" ">> \o rs[i].description)]
        themes == theme_templates(ch, _current_season(month), year)
        enrich(theme) ==
            LET matching == SelectSeq(signals,
                                LAMBDA s : \E k \in 1..Len(theme.keywords) :
                                                contains(s, theme.keywords[k]))
            IN  IF matching # <<>>
                THEN [theme EXCEPT !.rationale =
                        @ \o <<" Trend signal: \"">>
                          \o strip(Slice(first_matching(matching), 0, 120))
                          \o <<"...\"">>]
                ELSE theme
    IN  IF signals # <<>> THEN [t \in 1..Len(themes) |-> enrich(themes[t])]
        ELSE themes

\* n times the letter x
RECURSIVE Xs(_)
Xs(n) == IF n <= 0 THEN <<>> ELSE <<"x">> \o Xs(n - 1)

\* search results: one with several keywords in title and description, one
\* whose text is longer than 120 characters with a space as its 120th, one
\* with a two-word keyword split between title and description, and one that
\* names a season
ResultPool == {
    [title |-> <<"C", "o", "z", "y", " ", "H", "O", "M", "E">>,
     description |-> <<"G", "l", "o", "w", " ", "e", "d", "i", "t", " ", "p", "i", "c", "k", "s">>],
    [title |-> <<"V", "i", "r", "a", "l">>,
     description |-> Xs(113) \o <<" ", "c", "a", "n", "a", "d", "a", " ", "n", "e", "w">>],
    [title |-> <<"Q", "u", "i", "e", "t">>,
     description |-> <<"L", "u", "x", "u", "r", "y", " ", "p", "r", "e", "m", "i", "u", "m">>],
    [title |-> <<"W", "i", "n", "t", "e", "r">>, description |-> <<>>] }

ResultLists == UNION {[1..n -> ResultPool] : n \in 0..MaxResults}

Years == {2026}

ExtractIdle ==
    /\ e_pc = "idle"
    /\ e_results = <<>>
    /\ e_channel = ""
    /\ e_month = 0
    /\ e_year = 0
    /\ e_themes = <<>>

ExtractInit ==
    /\ e_pc = "call"
    /\ e_results \in ResultLists
    /\ e_channel \in CHANNELS
    /\ e_month \in 1..12
    /\ e_year \in Years
    /\ e_themes = <<>>

ExtractCall ==
    /\ e_pc = "call"
    /\ e_themes' = _extract_themes_from_results(e_results, e_channel, e_month, e_year)
    /\ e_pc' = "done"
    /\ UNCHANGED <<e_results, e_channel, e_month, e_year, outside_extract>>

-----------------------------------------------------------------------------
(* The search functions: story_themes._brave_web_search and research_themes, *)
(* shared.search_images (app.py holds a copy of it).  What a provider       *)
(* answers is not in the program's hands: every request ends in one of the  *)
(* outcomes below.                                                          *)

\* a request that fails: HTTP 429 (rate limit) or another error status raised by
\* raise_for_status, a timeout or connection error raised by requests.get, a
\* body that resp.json() or the .get chain cannot read; for DuckDuckGo the
\* exceptions of the library
FailStatuses == {"rate_limit", "http_error", "timeout", "bad_body"}

\* the JSON items of a Brave web search: one with a title only, one with
\* title and description, one with neither
WebItemTitle == [title |-> <<"N", "e", "w", " ", "p", "i", "c", "k", "s">>]

WebItemFull ==
    [title |-> <<"C", "o", "z", "y">>,
     description |-> <<"W", "i", "n", "t", "e", "r", " ", "g", "l", "o", "w">>,
     url |-> <<"u">>]

WebItemBare == [url |-> <<"v">>]

WebPayloads == {<<>>, <<WebItemTitle>>, <<WebItemBare, WebItemFull>>}

WebResponses ==
    {[status |-> s, body |-> <<>>] : s \in FailStatuses}
        \cup {[status |-> "ok", body |-> p] : p \in WebPayloads}

\* what a function hands back: a value, or an exception that leaves it
Returned(v) == [raised |-> FALSE, value |-> v]

Raised == [raised |-> TRUE, value |-> <<>>]

\* the list comprehension of _brave_web_search over the JSON results
web_results(body) ==
    [i \in 1..Len(body) |->
        [title |-> Get(body[i], "title", <<>>),
         description |-> Get(body[i], "description", <<>>),
         url |-> Get(body[i], "url", <<>>)]]

\* _brave_web_search without its except clause
_brave_web_search_unguarded(key, resp) ==
    IF ~key THEN Returned(<<>>)
    ELSE IF resp.status = "ok" THEN Returned(web_results(resp.body))
    ELSE Raised

\* _brave_web_search: [] without a key; one request; [] on any exception
_brave_web_search(key, resp) ==
    IF ~key THEN Returned(<<>>)
    ELSE IF resp.status = "ok" THEN Returned(web_results(resp.body))
    ELSE Returned(<<>>)

\* the requests one call of _brave_web_search sends
web_requests(key, resp) ==
    IF key THEN <<[provider |-> "brave", status |-> resp.status]>> ELSE <<>>

\* the JSON items of a Brave image search and the items DDGS().images returns
BraveImageItems == <<
    [title |-> "Mug", properties |-> [url |-> "a/full.jpg"],
     thumbnail |-> [src |-> "a/thumb.jpg"], url |-> "a/page"],
    [title |-> "Cup", url |-> "b/cup.jpg"] >>

BravePayloads == {<<>>, BraveImageItems}

DdgPayloads == {<<>>, <<[title |-> "Mug", image |-> "c/mug.jpg", thumbnail |-> "c/t.jpg"]>>}

ImageResponses(payloads) ==
    {[status |-> s, body |-> <<>>] : s \in FailStatuses}
        \cup {[status |-> "ok", body |-> p] : p \in payloads}

EmptyDict == [k \in {} |-> ""]

\* the list comprehension of _search_brave
brave_images(body) ==
    [i \in 1..Len(body) |->
        [title |-> Get(body[i], "title", ""),
         image |-> Get(Get(body[i], "properties", EmptyDict), "url",
                       Get(body[i], "url", "")),
         thumbnail |-> Get(Get(body[i], "thumbnail", EmptyDict), "src", "")]]

\* _CHANNEL_SEARCH_TERMS.get(channel, [])
search_terms(ch) ==
    IF ch = "@AmazonHome"
    THEN <<"home decor trends {year} Pinterest",
           "trending home products TikTok {season} {year}",
           "interior design trends {season} {year}">>
    ELSE IF ch = "@AmazonBeauty"
    THEN <<"beauty trends {year} TikTok",
           "skincare trends {season} {year} Pinterest",
           "trending beauty products {season} {year}">>
    ELSE IF ch = "@AmazonFashion"
    THEN <<"fashion trends {season} {year} Pinterest",
           "trending fashion TikTok {season} {year}",
           "style trends {season} {year}">>
    ELSE IF ch = "@Amazon"
    THEN <<"trending products Amazon {season} {year}",
           "viral products TikTok {season} {year}",
           "best new products {season} {year}">>
    ELSE IF ch = "@Amazon.ca"
    THEN <<"trending products Canada {season} {year}",
           "popular products Amazon Canada {season} {year}">>
    ELSE <<>>

\* story_themes.CHANNELS, the default of research_themes
THEME_CHANNELS ==
    <<"@AmazonHome", "@AmazonBeauty", "@AmazonFashion", "@Amazon", "@Amazon.ca">>

\* the lists research_themes is asked for: every channel (the default), one
\* channel, a name that is no channel, and none
RequestedChannels ==
    {THEME_CHANNELS, <<>>} \cup {<<c>> : c \in CHANNELS \cup {"@Other"}}

\* a winter and a summer month
ResearchMonths == {1, 7}

NoDict == [k \in {} |-> <<>>]

SearchIdle ==
    /\ q_pc = "idle"
    /\ q_fn = ""
    /\ q_key = FALSE
    /\ q_log = <<>>
    /\ q_msgs = <<>>
    /\ q_ret = <<>>
    /\ q_channels = <<>>
    /\ q_ci = 0
    /\ q_ti = 0
    /\ all_results = <<>>
    /\ all_themes = NoDict
    /\ q_month = 0
    /\ q_year = 0

SearchInit ==
    /\ q_pc = "call"
    /\ q_key \in BOOLEAN
    /\ q_log = <<>>
    /\ q_msgs = <<>>
    /\ q_ret = <<>>
    /\ q_ci = 0
    /\ q_ti = 0
    /\ all_results = <<>>
    /\ all_themes = NoDict
    /\ \/ /\ q_fn \in {"_brave_web_search", "search_images"}
          /\ q_channels = <<>>
          /\ q_month = 0
          /\ q_year = 0
       \/ /\ q_fn = "research_themes"
          /\ q_channels \in RequestedChannels
          /\ q_month \in ResearchMonths
          /\ q_year \in Years

\* story_themes._brave_web_search(query, count)
WebSearch ==
    /\ q_pc = "call"
    /\ q_fn = "_brave_web_search"
    /\ \E resp \in WebResponses :
        LET out == _brave_web_search(q_key, resp)
        IN  /\ q_log' = web_requests(q_key, resp)
            /\ q_ret' = out.value
            /\ q_pc' = IF out.raised THEN "raised" ELSE "done"
    /\ UNCHANGED <<q_fn, q_key, q_msgs, q_channels, q_ci, q_ti, all_results,
                   all_themes, q_month, q_year, outside_search>>

\* search_images: `if BRAVE_API_KEY:`
ImagesCall ==
    /\ q_pc = "call"
    /\ q_fn = "search_images"
    /\ q_pc' = IF q_key THEN "brave" ELSE "ddg"
    /\ UNCHANGED <<q_fn, q_key, q_log, q_msgs, q_ret, q_channels, q_ci, q_ti,
                   all_results, all_themes, q_month, q_year, outside_search>>

\* search_images: `return _search_brave(...)`, or the warning of its except
ImagesBrave ==
    /\ q_pc = "brave"
    /\ \E resp \in ImageResponses(BravePayloads) :
        /\ q_log' = Append(q_log, [provider |-> "brave", status |-> resp.status])
        /\ IF resp.status = "ok"
           THEN /\ q_ret' = brave_images(resp.body)
                /\ q_pc' = "done"
                /\ UNCHANGED q_msgs
           ELSE /\ q_msgs' = Append(q_msgs, "warning")
                /\ q_pc' = "ddg"
                /\ UNCHANGED q_ret
    /\ UNCHANGED <<q_fn, q_key, q_channels, q_ci, q_ti, all_results, all_themes,
                   q_month, q_year, outside_search>>

\* search_images: `return _search_ddg(...)`, or the error and [] of its except
ImagesDdg ==
    /\ q_pc = "ddg"
    /\ \E resp \in ImageResponses(DdgPayloads) :
        /\ q_log' = Append(q_log, [provider |-> "ddg", status |-> resp.status])
        /\ IF resp.status = "ok"
           THEN /\ q_ret' = resp.body
                /\ UNCHANGED q_msgs
           ELSE /\ q_ret' = <<>>
                /\ q_msgs' = Append(q_msgs, "error")
    /\ q_pc' = "done"
    /\ UNCHANGED <<q_fn, q_key, q_channels, q_ci, q_ti, all_results, all_themes,
                   q_month, q_year, outside_search>>

\* research_themes: lines 224-231
ResearchCall ==
    /\ q_pc = "call"
    /\ q_fn = "research_themes"
    /\ all_themes' = NoDict
    /\ q_ci' = 0
    /\ q_pc' = "channel"
    /\ UNCHANGED <<q_fn, q_key, q_log, q_msgs, q_ret, q_channels, q_ti,
                   all_results, q_month, q_year, outside_search>>

\* research_themes: the next channel, lines 233-235
ResearchChannel ==
    /\ q_pc = "channel"
    /\ q_ci < Len(q_channels)
    /\ all_results' = <<>>
    /\ q_ti' = 0
    /\ q_pc' = "term"
    /\ UNCHANGED <<q_fn, q_key, q_log, q_msgs, q_ret, q_channels, q_ci,
                   all_themes, q_month, q_year, outside_search>>

\* research_themes: one search term, lines 237-240
ResearchTerm ==
    /\ q_pc = "term"
    /\ q_ti < Len(search_terms(q_channels[q_ci + 1]))
    /\ \E resp \in WebResponses :
        LET out == _brave_web_search(q_key, resp)
        IN  /\ q_log' = web_requests(q_key, resp)
            /\ IF out.raised
               THEN q_pc' = "raised" /\ UNCHANGED <<all_results, q_ti>>
               ELSE /\ all_results' = all_results \o out.value
                    /\ q_ti' = q_ti + 1
                    /\ UNCHANGED q_pc
    /\ UNCHANGED <<q_fn, q_key, q_msgs, q_ret, q_channels, q_ci, all_themes,
                   q_month, q_year, outside_search>>

\* research_themes: the themes of the channel, lines 242-243
ResearchExtract ==
    /\ q_pc = "term"
    /\ q_ti = Len(search_terms(q_channels[q_ci + 1]))
    /\ LET ch == q_channels[q_ci + 1]
           themes == _extract_themes_from_results(all_results, ch, q_month, q_year)
       IN  all_themes' = [c \in DOMAIN all_themes \cup {ch} |->
                              IF c = ch THEN themes ELSE all_themes[c]]
    /\ q_ci' = q_ci + 1
    /\ q_pc' = "channel"
    /\ UNCHANGED <<q_fn, q_key, q_log, q_msgs, q_ret, q_channels, q_ti,
                   all_results, q_month, q_year, outside_search>>

\* research_themes: line 245
ResearchReturn ==
    /\ q_pc = "channel"
    /\ q_ci = Len(q_channels)
    /\ q_ret' = all_themes
    /\ q_pc' = "done"
    /\ UNCHANGED <<q_fn, q_key, q_log, q_msgs, q_channels, q_ci, q_ti,
                   all_results, all_themes, q_month, q_year, outside_search>>

-----------------------------------------------------------------------------
(* story_engine.generate_all_franchises, with generate_franchise_frames as   *)
(* the function of its arguments and of the calendar month that its steps   *)
(* above compute.                                                           *)

\* the keys of CHANNEL_BUILDERS
CHANNEL_BUILDERS == CHANNELS

\* "image": None, the image of a product row that has none
ImageNone == 0

\* the frames of one language: the collage, one frame per product, the collage again
frame_set(ch, folder, prods, theme, lang, now) ==
    LET collage == build_collage(ch, prods, theme, lang, 0, now)
    IN  << [path |-> collage_path(folder, 1), image |-> collage] >>
        \o [i \in 1..Len(prods) |->
               [path |-> individual_path(folder, i - 1, prods[i]),
                image |-> build_individual(ch, prods[i], i, lang,
                                           individual_gradient_idx(0, i - 1))]]
        \o duplicate_entries(folder, Len(prods), collage)

\* generate_franchise_frames(channel, products, theme_name): _prepare_product
\* calls product_image.convert, which raises when the image is None
generate_franchise_frames(ch, prods, theme, now) ==
    IF \E k \in 1..Len(prods) : prods[k].image = ImageNone THEN Raised
    ELSE Returned(frame_set(ch, safe_channel(ch), prods, theme, "en", now)
                  \o (IF has_french_set(ch)
                      THEN frame_set(ch, fr_folder(ch), prods, theme, "fr", now)
                      ELSE <<>>))

\* a channel key that CHANNEL_BUILDERS does not hold
OtherChannel == "@AmazonKids"

\* the product lists of the franchises: ready products and one without an image
FranchiseProducts ==
    LET a == [asin |-> <<"B", "0", "A", "B", "1">>, image |-> 1, copy |-> <<"N", "e", "w">>]
        b == [asin |-> <<"B", "0", "A", "B", "2">>, image |-> 2, copy |-> <<>>]
        c == [asin |-> <<"B", "0", "A", "B", "3">>, image |-> ImageNone, copy |-> <<>>]
    IN  {<<>>, <<a>>, <<a, b>>, <<c>>, <<a, c>>}

\* the dicts franchise_data: up to MaxFranchises distinct keys, in any order
FranchiseKeys ==
    {ks \in UNION {[1..n -> CHANNELS \cup {OtherChannel}] : n \in 0..MaxFranchises} :
        \A i, j \in 1..Len(ks) : i # j => ks[i] # ks[j]}

FranchisesIdle ==
    /\ g_pc = "idle"
    /\ franchise_data = <<>>
    /\ theme_names = <<>>
    /\ g_k = 0
    /\ g_all_results = <<>>
    /\ g_ret = <<>>
    /\ g_now = 12

\* generate_all_franchises(franchise_data, theme_names) is entered:
\* theme_names = {} when None, all_results = []
FranchisesInit ==
    /\ g_pc = "loop"
    /\ \E ks \in FranchiseKeys :
        /\ \E ps \in [1..Len(ks) -> FranchiseProducts] :
              franchise_data = [i \in 1..Len(ks) |-> [channel |-> ks[i], products |-> ps[i]]]
        /\ \E named \in BOOLEAN :
              theme_names = [c \in (IF named THEN {ks[i] : i \in 1..Len(ks)} ELSE {}) |->
                                "Spring Refresh"]
    /\ g_k = 0
    /\ g_all_results = <<>>
    /\ g_ret = <<>>
    /\ g_now = 12

\* one body of the loop whose channel is not in CHANNEL_BUILDERS: continue
FranchisesSkip ==
    /\ g_pc = "loop"
    /\ g_k < Len(franchise_data)
    /\ franchise_data[g_k + 1].channel \notin CHANNEL_BUILDERS
    /\ g_k' = g_k + 1
    /\ UNCHANGED <<g_pc, franchise_data, theme_names, g_all_results, g_ret, g_now,
                   outside_franchises>>

\* one body of the loop: the frames of the channel are appended, or the
\* exception of generate_franchise_frames leaves generate_all_franchises
FranchisesFrames ==
    /\ g_pc = "loop"
    /\ g_k < Len(franchise_data)
    /\ franchise_data[g_k + 1].channel \in CHANNEL_BUILDERS
    /\ g_now' \in Later(g_now)
    /\ LET item == franchise_data[g_k + 1]
           theme == Get(theme_names, item.channel, "Just Dropped")
           frames == generate_franchise_frames(item.channel, item.products, theme, g_now')
       IN  IF frames.raised
           THEN /\ g_pc' = "raised"
                /\ UNCHANGED <<g_k, g_all_results>>
           ELSE /\ g_all_results' = g_all_results \o frames.value
                /\ g_k' = g_k + 1
                /\ g_pc' = g_pc
    /\ UNCHANGED <<franchise_data, theme_names, g_ret, outside_franchises>>

\* return all_results
FranchisesReturn ==
    /\ g_pc = "loop"
    /\ g_k = Len(franchise_data)
    /\ g_ret' = g_all_results
    /\ g_pc' = "done"
    /\ UNCHANGED <<franchise_data, theme_names, g_k, g_all_results, g_now,
                   outside_franchises>>

-----------------------------------------------------------------------------
(* The banner pages: pages/1_ILM_Banner_Generator.py, app.py and            *)
(* pages/3_ILM_Banner_Generator_CA.py.  A run of the script reads the        *)
(* widgets, computes `ready`, and when the Generate button is clicked calls  *)
(* banner_engine.generate_all and shows the preview and the ZIP download.    *)

\* generate_all(cfg) as the function of its argument that the loop above computes
RECURSIVE generate_all_from(_, _)
generate_all_from(c, iter) ==
    IF iter >= Len(LANGS) * Len(LARGE_SIZES) THEN <<>>
    ELSE loop_body_entries(LARGE_SIZES[(iter % Len(LARGE_SIZES)) + 1],
                           LANGS[(iter \div Len(LARGE_SIZES)) + 1], c)
         \o generate_all_from(c, iter + 1)

generate_all(c) ==
    IF hex_to_rgb(c.bg_color_hex).err # "" THEN Raised
    ELSE Returned(generate_all_from(c, 0))

\* the keyword arguments `def generate_all(cfg)` accepts
generate_all_keywords == {"cfg"}

\* a call generate_all(cfg, **keywords): Python raises TypeError for a
\* keyword the function does not define
call_generate_all(c, keywords) ==
    IF keywords \subseteq generate_all_keywords THEN generate_all(c) ELSE Raised

\* the keyword arguments each page passes: generate_all(cfg, region="CA") on the CA page
page_keywords(page) == IF page = "ca" THEN {"region"} ELSE {}

\* int(s) for a string of decimal digits
RECURSIVE StrToInt(_)
StrToInt(s) ==
    IF s = <<>> THEN 0
    ELSE 10 * StrToInt(SubSeq(s, 1, Len(s) - 1))
         + (CHOOSE d \in 0..9 : DigitChars[d + 1] = s[Len(s)])

\* name.split("x")[0]
before_x(name) ==
    IF \E k \in 1..Len(name) : name[k] = "x"
    THEN SubSeq(name, 1, (CHOOSE k \in 1..Len(name) :
                             name[k] = "x" /\ \A j \in 1..(k - 1) : name[j] # "x") - 1)
    ELSE name

\* whether the preview loop of the page shows an entry: app.py shows it
\* `if w >= 640` for w = int(name.split("x")[0]); the pages show every entry
preview_shows(page, name) ==
    page = "app" => StrToInt(before_x(name)) >= 640

ready_but_esp ==
    /\ logo_img # ImageNone
    /\ product_img # ImageNone
    /\ brand_name # ""
    /\ brand_abbrev # <<>>
    /\ headline_eng # ""

\* ready = (logo_img is not None and product_img is not None and brand_name
\*          and brand_abbrev and headline_eng and headline_esp)
ready ==
    /\ logo_img # ImageNone
    /\ product_img # ImageNone
    /\ brand_name # ""
    /\ brand_abbrev # <<>>
    /\ headline_eng # ""
    /\ headline_esp # ""

\* st.button("Generate Banners", disabled=not ready)
generate_disabled == ~ready

Pages == {"us", "app", "ca"}

\* no cfg has been built
NoCfg == [brand_name |-> "", brand_abbrev |-> <<>>, logo_image |-> ImageNone,
          product_image |-> ImageNone, headline_eng |-> "", headline_esp |-> "",
          bg_color_hex |-> <<>>]

PageIdle ==
    /\ pg_page = ""
    /\ pg_pc = "idle"
    /\ logo_img = ImageNone
    /\ product_img = ImageNone
    /\ brand_name = ""
    /\ brand_abbrev = <<>>
    /\ headline_eng = ""
    /\ headline_esp = ""
    /\ bg_color = <<>>
    /\ pg_cfg = NoCfg
    /\ pg_results = <<>>
    /\ pg_preview = <<>>
    /\ pg_zip = <<>>

\* a page is opened: the pickers hold no image, the text inputs are empty,
\* the colour picker holds its default value
PageInit ==
    /\ pg_page \in Pages
    /\ pg_pc = "form"
    /\ logo_img = ImageNone
    /\ product_img = ImageNone
    /\ brand_name = ""
    /\ brand_abbrev = <<>>
    /\ headline_eng = ""
    /\ headline_esp = ""
    /\ bg_color = <<"#", "d", "9", "f", "6", "9", "e">>
    /\ pg_cfg = NoCfg
    /\ pg_results = <<>>
    /\ pg_preview = <<>>
    /\ pg_zip = <<>>

\* the user changes one widget; the script reruns without a click of the
\* Generate button, so no cfg is built and no result is shown
PageInput ==
    /\ pg_pc # "idle"
    /\ \/ logo_img' \in {ImageNone, 1} \ {logo_img}
          /\ UNCHANGED <<product_img, brand_name, brand_abbrev, headline_eng,
                         headline_esp, bg_color>>
       \/ product_img' \in {ImageNone, 2} \ {product_img}
          /\ UNCHANGED <<logo_img, brand_name, brand_abbrev, headline_eng,
                         headline_esp, bg_color>>
       \/ brand_name' \in {"", "OC Integrative Medicine"} \ {brand_name}
          /\ UNCHANGED <<logo_img, product_img, brand_abbrev, headline_eng,
                         headline_esp, bg_color>>
       \/ brand_abbrev' \in {<<>>, <<"O", "C", "I", "M">>} \ {brand_abbrev}
          /\ UNCHANGED <<logo_img, product_img, brand_name, headline_eng,
                         headline_esp, bg_color>>
       \/ headline_eng' \in {"", "Motility Activator"} \ {headline_eng}
          /\ UNCHANGED <<logo_img, product_img, brand_name, brand_abbrev,
                         headline_esp, bg_color>>
       \/ headline_esp' \in {"", "Activador de la motilidad"} \ {headline_esp}
          /\ UNCHANGED <<logo_img, product_img, brand_name, brand_abbrev,
                         headline_eng, bg_color>>
       \/ bg_color' \in {<<"#", "d", "9", "f", "6", "9", "e">>,
                         <<"#", "f", "f", "f", "f", "f", "f">>} \ {bg_color}
          /\ UNCHANGED <<logo_img, product_img, brand_name, brand_abbrev,
                         headline_eng, headline_esp>>
    /\ pg_pc' = "form"
    /\ pg_cfg' = NoCfg
    /\ pg_results' = <<>>
    /\ pg_preview' = <<>>
    /\ pg_zip' = <<>>
    /\ UNCHANGED <<pg_page, outside_page>>

\* the Generate Banners button is clicked (it can be only when it is not
\* disabled): cfg is built, generate_all is called, the preview loop and the
\* ZIP loop run over results; an exception ends the run of the script
PageGenerate ==
    /\ pg_pc # "idle"
    /\ ~generate_disabled
    /\ LET c == [brand_name |-> brand_name, brand_abbrev |-> brand_abbrev,
                 logo_image |-> logo_img, product_image |-> product_img,
                 headline_eng |-> headline_eng, headline_esp |-> headline_esp,
                 bg_color_hex |-> bg_color]
           out == call_generate_all(c, page_keywords(pg_page))
       IN  /\ pg_cfg' = c
           /\ IF out.raised
              THEN /\ pg_pc' = "failed"
                   /\ pg_results' = <<>>
                   /\ pg_preview' = <<>>
                   /\ pg_zip' = <<>>
              ELSE /\ pg_pc' = "shown"
                   /\ pg_results' = out.value
                   /\ pg_preview' = SelectSeq(out.value,
                                        LAMBDA e : preview_shows(pg_page, e.name))
                   /\ pg_zip' = out.value
    /\ UNCHANGED <<pg_page, logo_img, product_img, brand_name, brand_abbrev,
                   headline_eng, headline_esp, bg_color, outside_page>>

-----------------------------------------------------------------------------
(* pages/2_Just_Dropped_Generator.py: the session state of the wizard and   *)
(* what one run of the script computes from it.                             *)

\* a Python value that may be None
None == [none |-> TRUE, value |-> <<>>]

Some(v) == [none |-> FALSE, value |-> v]

\* `if x:` for a value that is None or a dict or a list
Truthy(x) == ~x.none /\ DOMAIN x.value # {}

\* {"asin": "", "brand": "", "product_name": "", "copy": "", "image": None}
blank_product ==
    [asin |-> <<>>, brand |-> "", product_name |-> "", copy |-> <<>>, image |-> ImageNone]

\* the rows a channel gets when its tab is rendered for the first time
blank_rows == [i \in 1..MaxRows |-> blank_product]

\* step 2: `if channel not in st.session_state.jd_products:` for each channel
with_rows(prods) ==
    [ch \in CHANNELS |-> IF ch \in DOMAIN prods THEN prods[ch] ELSE blank_rows]

\* {"asin": "", "brand": ""} rows of the alternative ASINs (none is filled here)
with_alt_rows(alts) ==
    [ch \in CHANNELS |-> IF ch \in DOMAIN alts THEN alts[ch]
                         ELSE << [asin |-> <<>>, brand |-> ""] >>]

\* the names of the themes research_themes proposes for a channel
theme_options(ch, month) ==
    LET themes == theme_templates(ch, _current_season(month), 2026)
    IN  [k \in 1..Len(themes) |-> themes[k].name]

\* story_themes.research_themes() as the page reads it: the names per channel
researched_themes(month) == [ch \in CHANNELS |-> theme_options(ch, month)]

\* options.index(approved[channel]) raises ValueError when the approved theme
\* is none of the options
step1_raises(themes, approved) ==
    /\ Truthy(themes)
    /\ \E ch \in DOMAIN approved :
          \A k \in 1..Len(themes.value[ch]) : themes.value[ch][k] # approved[ch]

\* step 1 rendered: approved[channel] = selected for every channel with themes;
\* a radio shows the approved theme, or the first option when none is approved
render_step1(themes, approved) ==
    IF ~Truthy(themes) THEN approved
    ELSE [ch \in CHANNELS |->
            IF ch \in DOMAIN approved THEN approved[ch] ELSE themes.value[ch][1]]

\* all(ch in st.session_state.jd_approved_themes for ch in CHANNELS)
all_approved(approved) == \A ch \in CHANNELS : ch \in DOMAIN approved

\* [p["asin"] for p in products if p["asin"]]
asins_of(rows) ==
    LET entered == SelectSeq(rows, LAMBDA p : p.asin # <<>>)
    IN  [k \in 1..Len(entered) |-> entered[k].asin]

\* set(a for a in asins if asins.count(a) > 1)
dupes(rows) ==
    LET asins == asins_of(rows)
    IN  {asins[k] : k \in {i \in 1..Len(asins) :
                              \E j \in 1..Len(asins) : j # i /\ asins[j] = asins[i]}}

\* the rows with an ASIN and no image, as (channel, row)
missing_images(prods) ==
    {<<ch, i>> \in CHANNELS \X (1..MaxRows) :
        /\ ch \in DOMAIN prods
        /\ prods[ch][i].asin # <<>>
        /\ prods[ch][i].image = ImageNone}

validation_errors_dupes_only(prods) ==
    {ch \in DOMAIN prods : dupes(prods[ch]) # {}}

\* validation_errors: one per channel with duplicate ASINs, one for missing images
validation_errors(prods) ==
    {ch \in DOMAIN prods : dupes(prods[ch]) # {}}
        \cup (IF missing_images(prods) # {} THEN {"Missing images"} ELSE {})

\* [p for p in products if p["asin"] and p["image"] is not None]
ready_products(rows) ==
    SelectSeq(rows, LAMBDA p : p.asin # <<>> /\ p.image # ImageNone)

RECURSIVE SumLen(_, _)
SumLen(d, keys) ==
    IF keys = {} THEN 0
    ELSE LET k == CHOOSE x \in keys : TRUE
         IN  Len(d[k]) + SumLen(d, keys \ {k})

\* total_entered: the products with an ASIN and an image, over all channels
total_entered(prods) ==
    SumLen([ch \in DOMAIN prods |-> ready_products(prods[ch])], DOMAIN prods)

can_proceed_any_entered(prods) == total_entered(prods) > 0

\* can_proceed = total_entered > 0 and not validation_errors
can_proceed(prods) == total_entered(prods) > 0 /\ validation_errors(prods) = {}

\* franchise_data of the Generate handler: the ready products of each channel
\* that has some, in the order of CHANNELS
franchise_data_of(prods) ==
    LET all == [k \in 1..Len(THEME_CHANNELS) |->
                   [channel |-> THEME_CHANNELS[k],
                    products |-> ready_products(Get(prods, THEME_CHANNELS[k], <<>>))]]
    IN  SelectSeq(all, LAMBDA item : item.products # <<>>)

\* generate_all_franchises(franchise_data, theme_names) as the function of
\* its arguments and of the month that its loop above computes
RECURSIVE generate_all_franchises(_, _, _)
generate_all_franchises(items, themes, now) ==
    IF items = <<>> THEN Returned(<<>>)
    ELSE LET item == Head(items)
             rest == generate_all_franchises(Tail(items), themes, now)
             frames == generate_franchise_frames(item.channel, item.products,
                           Get(themes, item.channel, "Just Dropped"), now)
         IN  IF item.channel \notin CHANNEL_BUILDERS THEN rest
             ELSE IF frames.raised \/ rest.raised THEN Raised
             ELSE Returned(frames.value \o rest.value)

\* the data rows of a channel's sheet: Frame 1 (Collage), one row per product
\* with an ASIN, the closing collage row
report_rows(rows) ==
    LET entered == SelectSeq(rows, LAMBDA p : p.asin # <<>>)
    IN  << [frame |-> 1, collage |-> TRUE, asin |-> <<"-">>] >>
        \o [i \in 1..Len(entered) |->
               [frame |-> i + 1, collage |-> FALSE, asin |-> entered[i].asin]]
        \o << [frame |-> Len(entered) + 2, collage |-> TRUE, asin |-> <<"-">>] >>

\* the workbook: a sheet for every channel that has a product with an ASIN
report_of(prods) ==
    [ch \in {c \in DOMAIN prods : asins_of(prods[c]) # <<>>} |-> report_rows(prods[ch])]

\* the ASINs the user types and the channels whose tab the user works in
TypedAsins == { <<>>, <<"B", "0", "A", "B", "1">>, <<"B", "0", "A", "B", "2">> }

TabChannels == {"@AmazonHome", "@Amazon.ca"}

WizardIdle ==
    /\ jd_step = 0
    /\ jd_themes = None
    /\ jd_approved_themes = EmptyDict
    /\ jd_products = EmptyDict
    /\ jd_alt_asins = EmptyDict
    /\ jd_generated_frames = None
    /\ jd_report_data = None
    /\ wz_tab = ""
    /\ wz_month = 0
    /\ wz_event = ""

\* the defaults of _init_state
DefaultSession ==
    /\ jd_step = 1
    /\ jd_themes = None
    /\ jd_approved_themes = EmptyDict
    /\ jd_products = EmptyDict
    /\ jd_alt_asins = EmptyDict
    /\ jd_generated_frames = None
    /\ jd_report_data = None

\* the page is opened in a new session: _init_state()
WizardInit ==
    /\ DefaultSession
    /\ wz_tab \in TabChannels
    /\ wz_month \in {7}
    /\ wz_event = "open"

-----------------------------------------------------------------------------
(* The Just Dropped wizard: one action per user event.  An action is the    *)
(* run of the script that handles the event together with the rerun that    *)
(* st.rerun() starts, which renders the step the wizard is then at.         *)

\* "Research Trends": jd_themes is set, the rerun renders the radios
WizResearch ==
    /\ jd_step = 1
    /\ jd_themes' = Some(researched_themes(wz_month))
    /\ jd_approved_themes' =
           IF step1_raises(jd_themes', jd_approved_themes) THEN jd_approved_themes
           ELSE render_step1(jd_themes', jd_approved_themes)
    /\ wz_event' = "research"
    /\ UNCHANGED <<jd_step, jd_products, jd_alt_asins, jd_generated_frames,
                   jd_report_data, wz_tab, wz_month, outside_wizard>>

\* another option of the radio of the channel is selected
WizSelectTheme ==
    /\ jd_step = 1
    /\ Truthy(jd_themes)
    /\ ~step1_raises(jd_themes, jd_approved_themes)
    /\ \E k \in 1..Len(jd_themes.value[wz_tab]) :
          /\ jd_themes.value[wz_tab][k] # jd_approved_themes[wz_tab]
          /\ jd_approved_themes' =
                [render_step1(jd_themes, jd_approved_themes)
                    EXCEPT ![wz_tab] = jd_themes.value[wz_tab][k]]
    /\ wz_event' = "select"
    /\ UNCHANGED <<jd_step, jd_themes, jd_products, jd_alt_asins,
                   jd_generated_frames, jd_report_data, wz_tab, wz_month,
                   outside_wizard>>

\* a custom theme is typed for the channel: `if custom:` overrides the radio
WizCustomTheme ==
    /\ jd_step = 1
    /\ Truthy(jd_themes)
    /\ ~step1_raises(jd_themes, jd_approved_themes)
    /\ jd_approved_themes' =
          [render_step1(jd_themes, jd_approved_themes)
              EXCEPT ![wz_tab] = <<"Cabin Weekend">>]
    /\ wz_event' = "custom"
    /\ UNCHANGED <<jd_step, jd_themes, jd_products, jd_alt_asins,
                   jd_generated_frames, jd_report_data, wz_tab, wz_month,
                   outside_wizard>>

\* "Approve Themes & Continue" (disabled=not all_approved): step 2 is
\* rendered and gives every channel its rows
WizApprove ==
    /\ jd_step = 1
    /\ Truthy(jd_themes)
    /\ ~step1_raises(jd_themes, jd_approved_themes)
    /\ all_approved(render_step1(jd_themes, jd_approved_themes))
    /\ jd_approved_themes' = render_step1(jd_themes, jd_approved_themes)
    /\ jd_step' = 2
    /\ jd_products' = with_rows(jd_products)
    /\ jd_alt_asins' = with_alt_rows(jd_alt_asins)
    /\ wz_event' = "approve"
    /\ UNCHANGED <<jd_themes, jd_generated_frames, jd_report_data, wz_tab,
                   wz_month, outside_wizard>>

\* "Back to Theme Selection"
WizBackToThemes ==
    /\ jd_step = 2
    /\ jd_step' = 1
    /\ jd_approved_themes' =
           IF step1_raises(jd_themes, jd_approved_themes) THEN jd_approved_themes
           ELSE render_step1(jd_themes, jd_approved_themes)
    /\ wz_event' = "back"
    /\ UNCHANGED <<jd_themes, jd_products, jd_alt_asins, jd_generated_frames,
                   jd_report_data, wz_tab, wz_month, outside_wizard>>

\* the ASIN of a row is typed: products[i]["asin"] = st.text_input(...)
WizTypeAsin ==
    /\ jd_step = 2
    /\ \E i \in 1..MaxRows, a \in TypedAsins :
          /\ jd_products[wz_tab][i].asin # a
          /\ jd_products' = [jd_products EXCEPT ![wz_tab][i].asin = a]
    /\ wz_event' = "asin"
    /\ UNCHANGED <<jd_step, jd_themes, jd_approved_themes, jd_alt_asins,
                   jd_generated_frames, jd_report_data, wz_tab, wz_month,
                   outside_wizard>>

\* an image is picked for a row: `if img: products[i]["image"] = img`
WizPickImage ==
    /\ jd_step = 2
    /\ \E i \in 1..MaxRows :
          /\ jd_products[wz_tab][i].image = ImageNone
          /\ jd_products' = [jd_products EXCEPT ![wz_tab][i].image = i]
    /\ wz_event' = "image"
    /\ UNCHANGED <<jd_step, jd_themes, jd_approved_themes, jd_alt_asins,
                   jd_generated_frames, jd_report_data, wz_tab, wz_month,
                   outside_wizard>>

\* "Continue to Generation" (disabled=not can_proceed)
WizContinueToGeneration ==
    /\ jd_step = 2
    /\ can_proceed(jd_products)
    /\ jd_step' = 3
    /\ wz_event' = "continue"
    /\ UNCHANGED <<jd_themes, jd_approved_themes, jd_products, jd_alt_asins,
                   jd_generated_frames, jd_report_data, wz_tab, wz_month,
                   outside_wizard>>

\* "Back to Product Curation"
WizBackToProducts ==
    /\ jd_step = 3
    /\ jd_step' = 2
    /\ jd_products' = with_rows(jd_products)
    /\ jd_alt_asins' = with_alt_rows(jd_alt_asins)
    /\ wz_event' = "back"
    /\ UNCHANGED <<jd_themes, jd_approved_themes, jd_generated_frames,
                   jd_report_data, wz_tab, wz_month, outside_wizard>>

\* "Generate All Frames": an exception of the engine ends the run before
\* jd_generated_frames is assigned
WizGenerate ==
    /\ jd_step = 3
    /\ LET out == generate_all_franchises(franchise_data_of(jd_products),
                                          jd_approved_themes, wz_month)
       IN  jd_generated_frames' =
               IF out.raised THEN jd_generated_frames ELSE Some(out.value)
    /\ wz_event' = "generate"
    /\ UNCHANGED <<jd_step, jd_themes, jd_approved_themes, jd_products,
                   jd_alt_asins, jd_report_data, wz_tab, wz_month, outside_wizard>>

\* "Continue to Report", shown `if st.session_state.jd_generated_frames:`
WizContinueToReport ==
    /\ jd_step = 3
    /\ Truthy(jd_generated_frames)
    /\ jd_step' = 4
    /\ wz_event' = "continue"
    /\ UNCHANGED <<jd_themes, jd_approved_themes, jd_products, jd_alt_asins,
                   jd_generated_frames, jd_report_data, wz_tab, wz_month,
                   outside_wizard>>

\* "Back to Generation"
WizBackToGeneration ==
    /\ jd_step = 4
    /\ jd_step' = 3
    /\ wz_event' = "back"
    /\ UNCHANGED <<jd_themes, jd_approved_themes, jd_products, jd_alt_asins,
                   jd_generated_frames, jd_report_data, wz_tab, wz_month,
                   outside_wizard>>

\* "Generate Excel Report": the workbook is built from jd_products, unless
\* openpyxl cannot be imported
WizReport ==
    /\ jd_step = 4
    /\ \E installed \in BOOLEAN :
          jd_report_data' = IF installed THEN Some(report_of(jd_products))
                            ELSE jd_report_data
    /\ wz_event' = "report"
    /\ UNCHANGED <<jd_step, jd_themes, jd_approved_themes, jd_products,
                   jd_alt_asins, jd_generated_frames, wz_tab, wz_month,
                   outside_wizard>>

\* "Start New Franchise": every key that starts with jd_ is deleted, and
\* _init_state() of the rerun sets the defaults
WizStartNew ==
    /\ jd_step = 4
    /\ jd_step' = 1
    /\ jd_themes' = None
    /\ jd_approved_themes' = EmptyDict
    /\ jd_products' = EmptyDict
    /\ jd_alt_asins' = EmptyDict
    /\ jd_generated_frames' = None
    /\ jd_report_data' = None
    /\ wz_event' = "start new"
    /\ UNCHANGED <<wz_tab, wz_month, outside_wizard>>

-----------------------------------------------------------------------------
(* generate_franchise_frames and generate_all called twice with the same    *)
(* arguments, the second call later than the first.  Neither function       *)
(* assigns to its argument, so the actions leave d_products and d_cfg alone. *)

NoResult == [raised |-> FALSE, value |-> <<>>]

RepeatIdle ==
    /\ d_pc = "idle"
    /\ d_fn = ""
    /\ d_channel = ""
    /\ d_products = <<>>
    /\ d_theme = ""
    /\ d_cfg = NoConfig
    /\ d_now = 12
    /\ d_first = NoResult
    /\ d_second = NoResult

\* the arguments of the two calls and the month of the first
RepeatInit ==
    /\ d_pc = "call"
    /\ \/ /\ d_fn = "generate_franchise_frames"
          /\ d_channel \in CHANNELS
          /\ d_products \in FranchiseProducts
          /\ d_theme \in Themes
          /\ d_cfg = NoConfig
       \/ /\ d_fn = "generate_all"
          /\ d_channel = ""
          /\ d_products = <<>>
          /\ d_theme = ""
          /\ d_cfg \in Configs
    /\ d_now \in 1..12
    /\ d_first = NoResult
    /\ d_second = NoResult

\* what a call returns when the clock reports the month `now`
repeat_call(now) ==
    IF d_fn = "generate_all" THEN generate_all(d_cfg)
    ELSE generate_franchise_frames(d_channel, d_products, d_theme, now)

\* the first call; time passes before the second
RepeatFirst ==
    /\ d_pc = "call"
    /\ d_first' = repeat_call(d_now)
    /\ d_now' \in Later(d_now)
    /\ d_pc' = "once"
    /\ UNCHANGED <<d_fn, d_channel, d_products, d_theme, d_cfg, d_second,
                   outside_repeat>>

\* the second call, with the same arguments
RepeatSecond ==
    /\ d_pc = "once"
    /\ d_second' = repeat_call(d_now)
    /\ d_pc' = "twice"
    /\ UNCHANGED <<d_fn, d_channel, d_products, d_theme, d_cfg, d_now, d_first,
                   outside_repeat>>

-----------------------------------------------------------------------------
(* _build_headline_banner and _build_compact_banner: the zones of the two   *)
(* layouts and the rectangles the logo and the product image are pasted on. *)
(* An image is known by its size after trim_transparent.                    *)

\* pad = max(int(h * 0.14), 8)
layout_pad(h) == Max(pct(h, 14), 8)

\* the zone bounds of the layout with headline (1300x90, 1200x90) and of the
\* compact layout (640x90)
layout_zones(w, h, has_hl) ==
    IF has_hl
    THEN [logo_l |-> layout_pad(h), logo_r |-> pct(w, 16),
          prod_l |-> pct(w, 62), prod_r |-> pct(w, 77),
          cta_l |-> pct(w, 78), cta_r |-> w - layout_pad(h)]
    ELSE [logo_l |-> layout_pad(h), logo_r |-> pct(w, 28),
          prod_l |-> pct(w, 29), prod_r |-> pct(w, 52),
          cta_l |-> pct(w, 54), cta_r |-> w - layout_pad(h)]

\* an image of a size pasted with its top left corner at (x, y)
pasted(x, y, size) ==
    [left |-> x, top |-> y, right |-> x + size.width, bottom |-> y + size.height]

\* logo = fit_image(logo, logo_r - logo_l, h - pad * 2), pasted at
\* (logo_l, (h - logo.height) // 2)
paste_logo(img, z, h) ==
    LET logo == fit_image(img, z.logo_r - z.logo_l, h - layout_pad(h) * 2)
    IN  pasted(z.logo_l, (h - logo.height) \div 2, logo)

\* prod = fit_image(prod, prod_r - prod_l, h - 4), pasted at
\* (prod_l + (prod_r - prod_l - prod.width) // 2, (h - prod.height) // 2)
paste_product_flush_right(img, z, h) ==
    LET prod == fit_image(img, z.prod_r - z.prod_l, h - 4)
    IN  pasted(z.prod_r - prod.width \div 2, (h - prod.height) \div 2, prod)

paste_product(img, z, h) ==
    LET prod == fit_image(img, z.prod_r - z.prod_l, h - 4)
    IN  pasted(z.prod_l + (z.prod_r - z.prod_l - prod.width) \div 2,
               (h - prod.height) \div 2, prod)

NoBox == [left |-> 0, top |-> 0, right |-> 0, bottom |-> 0]

\* widths and heights of the trimmed images: a single pixel, smaller than
\* every zone, as large as a zone or the canvas, far larger
ImageDims == {1, 7, 66, 90, 196, 1300}

LayoutIdle ==
    /\ ly_pc = "idle"
    /\ ly_size = LARGE_SIZES[1]
    /\ ly_logo = NoSize
    /\ ly_prod = NoSize
    /\ ly_logo_box = NoBox
    /\ ly_prod_box = NoBox

\* generate_all calls the builder of each entry of LARGE_SIZES
LayoutInit ==
    /\ ly_pc = "call"
    /\ \E k \in DOMAIN LARGE_SIZES : ly_size = LARGE_SIZES[k]
    /\ ly_logo \in [width : ImageDims, height : ImageDims]
    /\ ly_prod \in [width : ImageDims, height : ImageDims]
    /\ ly_logo_box = NoBox
    /\ ly_prod_box = NoBox

\* the logo is fitted to its zone and pasted
LayoutLogo ==
    /\ ly_pc = "call"
    /\ ly_logo_box' = paste_logo(ly_logo,
                          layout_zones(ly_size.w, ly_size.h, ly_size.has_hl), ly_size.h)
    /\ ly_pc' = "logo"
    /\ UNCHANGED <<ly_size, ly_logo, ly_prod, ly_prod_box, outside_layout>>

\* the product image is fitted to its zone and pasted
LayoutProduct ==
    /\ ly_pc = "logo"
    /\ ly_prod_box' = paste_product(ly_prod,
                          layout_zones(ly_size.w, ly_size.h, ly_size.has_hl), ly_size.h)
    /\ ly_pc' = "done"
    /\ UNCHANGED <<ly_size, ly_logo, ly_prod, ly_logo_box, outside_layout>>

-----------------------------------------------------------------------------
(* Specifications *)

\* each specification runs one component; the others have not been called
IdleOutsideBanner == HexIdle /\ StoryIdle /\ PadIdle /\ FitIdle /\ TrimIdle /\ HeadlineIdle /\ IndividualIdle /\ WrapIdle /\ RecallIdle /\ ExtractIdle /\ SearchIdle /\ FranchisesIdle /\ PageIdle /\ WizardIdle /\ RepeatIdle /\ LayoutIdle
IdleOutsideHex == BannerIdle /\ StoryIdle /\ PadIdle /\ FitIdle /\ TrimIdle /\ HeadlineIdle /\ IndividualIdle /\ WrapIdle /\ RecallIdle /\ ExtractIdle /\ SearchIdle /\ FranchisesIdle /\ PageIdle /\ WizardIdle /\ RepeatIdle /\ LayoutIdle
IdleOutsideStory == BannerIdle /\ HexIdle /\ PadIdle /\ FitIdle /\ TrimIdle /\ HeadlineIdle /\ IndividualIdle /\ WrapIdle /\ RecallIdle /\ ExtractIdle /\ SearchIdle /\ FranchisesIdle /\ PageIdle /\ WizardIdle /\ RepeatIdle /\ LayoutIdle
IdleOutsidePad == BannerIdle /\ HexIdle /\ StoryIdle /\ FitIdle /\ TrimIdle /\ HeadlineIdle /\ IndividualIdle /\ WrapIdle /\ RecallIdle /\ ExtractIdle /\ SearchIdle /\ FranchisesIdle /\ PageIdle /\ WizardIdle /\ RepeatIdle /\ LayoutIdle
IdleOutsideFit == BannerIdle /\ HexIdle /\ StoryIdle /\ PadIdle /\ TrimIdle /\ HeadlineIdle /\ IndividualIdle /\ WrapIdle /\ RecallIdle /\ ExtractIdle /\ SearchIdle /\ FranchisesIdle /\ PageIdle /\ WizardIdle /\ RepeatIdle /\ LayoutIdle
IdleOutsideTrim == BannerIdle /\ HexIdle /\ StoryIdle /\ PadIdle /\ FitIdle /\ HeadlineIdle /\ IndividualIdle /\ WrapIdle /\ RecallIdle /\ ExtractIdle /\ SearchIdle /\ FranchisesIdle /\ PageIdle /\ WizardIdle /\ RepeatIdle /\ LayoutIdle
IdleOutsideHeadline == BannerIdle /\ HexIdle /\ StoryIdle /\ PadIdle /\ FitIdle /\ TrimIdle /\ IndividualIdle /\ WrapIdle /\ RecallIdle /\ ExtractIdle /\ SearchIdle /\ FranchisesIdle /\ PageIdle /\ WizardIdle /\ RepeatIdle /\ LayoutIdle
IdleOutsideIndividual == BannerIdle /\ HexIdle /\ StoryIdle /\ PadIdle /\ FitIdle /\ TrimIdle /\ HeadlineIdle /\ WrapIdle /\ RecallIdle /\ ExtractIdle /\ SearchIdle /\ FranchisesIdle /\ PageIdle /\ WizardIdle /\ RepeatIdle /\ LayoutIdle
IdleOutsideWrap == BannerIdle /\ HexIdle /\ StoryIdle /\ PadIdle /\ FitIdle /\ TrimIdle /\ HeadlineIdle /\ IndividualIdle /\ RecallIdle /\ ExtractIdle /\ SearchIdle /\ FranchisesIdle /\ PageIdle /\ WizardIdle /\ RepeatIdle /\ LayoutIdle
IdleOutsideRecall == BannerIdle /\ HexIdle /\ StoryIdle /\ PadIdle /\ FitIdle /\ TrimIdle /\ HeadlineIdle /\ IndividualIdle /\ WrapIdle /\ ExtractIdle /\ SearchIdle /\ FranchisesIdle /\ PageIdle /\ WizardIdle /\ RepeatIdle /\ LayoutIdle
IdleOutsideExtract == BannerIdle /\ HexIdle /\ StoryIdle /\ PadIdle /\ FitIdle /\ TrimIdle /\ HeadlineIdle /\ IndividualIdle /\ WrapIdle /\ RecallIdle /\ SearchIdle /\ FranchisesIdle /\ PageIdle /\ WizardIdle /\ RepeatIdle /\ LayoutIdle
IdleOutsideSearch == BannerIdle /\ HexIdle /\ StoryIdle /\ PadIdle /\ FitIdle /\ TrimIdle /\ HeadlineIdle /\ IndividualIdle /\ WrapIdle /\ RecallIdle /\ ExtractIdle /\ FranchisesIdle /\ PageIdle /\ WizardIdle /\ RepeatIdle /\ LayoutIdle
IdleOutsideFranchises == BannerIdle /\ HexIdle /\ StoryIdle /\ PadIdle /\ FitIdle /\ TrimIdle /\ HeadlineIdle /\ IndividualIdle /\ WrapIdle /\ RecallIdle /\ ExtractIdle /\ SearchIdle /\ PageIdle /\ WizardIdle /\ RepeatIdle /\ LayoutIdle
IdleOutsidePage == BannerIdle /\ HexIdle /\ StoryIdle /\ PadIdle /\ FitIdle /\ TrimIdle /\ HeadlineIdle /\ IndividualIdle /\ WrapIdle /\ RecallIdle /\ ExtractIdle /\ SearchIdle /\ FranchisesIdle /\ WizardIdle /\ RepeatIdle /\ LayoutIdle
IdleOutsideWizard == BannerIdle /\ HexIdle /\ StoryIdle /\ PadIdle /\ FitIdle /\ TrimIdle /\ HeadlineIdle /\ IndividualIdle /\ WrapIdle /\ RecallIdle /\ ExtractIdle /\ SearchIdle /\ FranchisesIdle /\ PageIdle /\ RepeatIdle /\ LayoutIdle
IdleOutsideRepeat == BannerIdle /\ HexIdle /\ StoryIdle /\ PadIdle /\ FitIdle /\ TrimIdle /\ HeadlineIdle /\ IndividualIdle /\ WrapIdle /\ RecallIdle /\ ExtractIdle /\ SearchIdle /\ FranchisesIdle /\ PageIdle /\ WizardIdle /\ LayoutIdle
IdleOutsideLayout == BannerIdle /\ HexIdle /\ StoryIdle /\ PadIdle /\ FitIdle /\ TrimIdle /\ HeadlineIdle /\ IndividualIdle /\ WrapIdle /\ RecallIdle /\ ExtractIdle /\ SearchIdle /\ FranchisesIdle /\ PageIdle /\ WizardIdle /\ RepeatIdle

InitBanner == BannerIdle /\ IdleOutsideBanner

NextBanner == GenerateAllCall \/ GenerateAllLoop \/ GenerateAllReturn

SpecBanner == InitBanner /\ [][NextBanner]_vars

InitHex == HexInit /\ IdleOutsideHex

NextHex == HexConvert

SpecHex == InitHex /\ [][NextHex]_vars

InitStory == StoryInit /\ IdleOutsideStory

NextStory ==
    \/ FramesCall
    \/ FramesCollage
    \/ FramesIndividual
    \/ FramesDuplicate
    \/ FramesCollageFr
    \/ FramesIndividualFr
    \/ FramesDuplicateFr
    \/ FramesReturn

SpecStory == InitStory /\ [][NextStory]_vars

InitPad == PadInit /\ IdleOutsidePad

NextPad == PadCall

SpecPad == InitPad /\ [][NextPad]_vars

InitFit == FitInit /\ IdleOutsideFit

NextFit == FitCall

SpecFit == InitFit /\ [][NextFit]_vars

InitTrim == TrimInit /\ IdleOutsideTrim

NextTrim == TrimCall \/ TrimAgain

SpecTrim == InitTrim /\ [][NextTrim]_vars

InitHeadline == HeadlineInit /\ IdleOutsideHeadline

NextHeadline ==
    \/ HeadlineCall
    \/ HeadlineMeasure
    \/ HeadlineLoopExit
    \/ HeadlineDraw

SpecHeadline == InitHeadline /\ [][NextHeadline]_vars

\* the builder called with any height, and run to its end: no statement of it
\* waits for anything
InitHeadlineAnyHeight == HeadlineInitAnyHeight /\ IdleOutsideHeadline

FairSpecHeadline == InitHeadlineAnyHeight /\ [][NextHeadline]_vars /\ WF_vars(NextHeadline)

InitIndividual == IndividualInit /\ IdleOutsideIndividual

NextIndividual == IndividualCall

SpecIndividual == InitIndividual /\ [][NextIndividual]_vars

InitWrap == WrapInit /\ IdleOutsideWrap

NextWrap == WrapNone \/ WrapCall \/ WrapWord \/ WrapFlush

SpecWrap == InitWrap /\ [][NextWrap]_vars

InitTheme == StoryInit /\ IdleOutsideStory

NextTheme == NextStory \/ FramesRecall

SpecTheme == InitTheme /\ [][NextTheme]_vars

InitExtract == ExtractInit /\ IdleOutsideExtract

NextExtract == ExtractCall

SpecExtract == InitExtract /\ [][NextExtract]_vars

InitSearch == SearchInit /\ IdleOutsideSearch

NextSearch ==
    \/ WebSearch
    \/ ImagesCall
    \/ ImagesBrave
    \/ ImagesDdg
    \/ ResearchCall
    \/ ResearchChannel
    \/ ResearchTerm
    \/ ResearchExtract
    \/ ResearchReturn

SpecSearch == InitSearch /\ [][NextSearch]_vars

InitFranchises == FranchisesInit /\ IdleOutsideFranchises

NextFranchises == FranchisesSkip \/ FranchisesFrames \/ FranchisesReturn

SpecFranchises == InitFranchises /\ [][NextFranchises]_vars

InitPage == PageInit /\ IdleOutsidePage

NextPage == PageInput \/ PageGenerate

SpecPage == InitPage /\ [][NextPage]_vars

InitWizard == WizardInit /\ IdleOutsideWizard

NextWizard ==
    \/ WizResearch
    \/ WizSelectTheme
    \/ WizCustomTheme
    \/ WizApprove
    \/ WizBackToThemes
    \/ WizTypeAsin
    \/ WizPickImage
    \/ WizContinueToGeneration
    \/ WizBackToProducts
    \/ WizGenerate
    \/ WizContinueToReport
    \/ WizBackToGeneration
    \/ WizReport
    \/ WizStartNew

SpecWizard == InitWizard /\ [][NextWizard]_vars

InitRepeat == RepeatInit /\ IdleOutsideRepeat

NextRepeat == RepeatFirst \/ RepeatSecond

SpecRepeat == InitRepeat /\ [][NextRepeat]_vars

InitLayout == LayoutInit /\ IdleOutsideLayout

NextLayout == LayoutLogo \/ LayoutProduct

SpecLayout == InitLayout /\ [][NextLayout]_vars

-----------------------------------------------------------------------------
(* Properties of generate_all *)

IsLargeSize(img) ==
    \E s \in 1..Len(LARGE_SIZES) :
        img.w = LARGE_SIZES[s].w /\ img.h = LARGE_SIZES[s].h

\* the entries of the returned list that show the raster of `size` in `lang`,
\* at full size (scale 1) or at half size (scale 2)
EntriesOf(lang, size, scale) ==
    {k \in 1..Len(b_ret) :
        /\ b_ret[k].image.lang = lang
        /\ scale * b_ret[k].image.w = size.w
        /\ scale * b_ret[k].image.h = size.h}

\* C1 as stated: generate_all returns exactly 24 entries.
C1_Returns24 == b_pc = "done" => Len(b_ret) = 24

\* C1 (amended): for every valid config generate_all returns exactly 12
\* entries: for each of the two languages and each of the three defined sizes,
\* exactly one full-size raster and exactly one half-size raster.
C1_Returns12 ==
    b_pc = "done" =>
        /\ Len(b_ret) = 12
        /\ \A l \in 1..Len(LANGS), s \in 1..Len(LARGE_SIZES) :
              /\ Cardinality(EntriesOf(LANGS[l], LARGE_SIZES[s], 1)) = 1
              /\ Cardinality(EntriesOf(LANGS[l], LARGE_SIZES[s], 2)) = 1

C1_Witness ==
    /\ b_pc = "done"
    /\ Len(b_ret) = 12
    /\ Cardinality(EntriesOf("ESP", LARGE_SIZES[3], 2)) = 1

\* C2: all filenames returned by one generate_all call are pairwise distinct
\* and each has the form {width}x{height}_{LANG}_ILM_{brandAbbrev}.jpg, for
\* any brand_abbrev.
C2_NamesUnique ==
    b_pc = "done" =>
        /\ \A i, j \in 1..Len(b_ret) : i # j => b_ret[i].name # b_ret[j].name
        /\ \A k \in 1..Len(b_ret) :
              b_ret[k].name =
                  IntToStr(b_ret[k].image.w) \o <<"x">>
                  \o IntToStr(b_ret[k].image.h) \o <<"_">>
                  \o LangChars(b_ret[k].image.lang)
                  \o <<"_", "I", "L", "M", "_">> \o cfg.brand_abbrev
                  \o <<".", "j", "p", "g">>

C2_Witness ==
    /\ b_pc = "done"
    /\ cfg.brand_abbrev = <<"E", "S", "P", "_", "I", "L", "M">>
    /\ b_ret[1].name = <<"1", "3", "0", "0", "x", "9", "0", "_", "E", "N", "G",
                         "_", "I", "L", "M", "_", "E", "S", "P", "_", "I", "L",
                         "M", ".", "j", "p", "g">>

\* C3: every full-size entry is immediately followed by a half-size entry of
\* the same language whose width is exactly half of it, and this happens for
\* all three defined sizes in both languages.
C3_FullIsDoubleHalf ==
    b_pc = "done" =>
        /\ \A k \in 1..Len(b_ret) :
              IsLargeSize(b_ret[k].image) =>
                  /\ k + 1 <= Len(b_ret)
                  /\ ~IsLargeSize(b_ret[k + 1].image)
                  /\ b_ret[k + 1].image.lang = b_ret[k].image.lang
                  /\ b_ret[k].image.w = 2 * b_ret[k + 1].image.w
        /\ \A l \in 1..Len(LANGS), s \in 1..Len(LARGE_SIZES) :
              \E k \in 1..Len(b_ret) :
                  /\ b_ret[k].image.lang = LANGS[l]
                  /\ b_ret[k].image.w = LARGE_SIZES[s].w
                  /\ b_ret[k].image.h = LARGE_SIZES[s].h

C3_Witness ==
    /\ b_pc = "done"
    /\ b_ret[5].image.w = 640
    /\ b_ret[6].image.w = 320
    /\ b_ret[6].image.lang = "ENG"

-----------------------------------------------------------------------------
(* Properties of hex_to_rgb *)

\* a colour string is well formed when, after one optional leading '#', it is
\* exactly six hex digits
StripOneHash(h) == IF h # <<>> /\ Head(h) = "#" THEN Tail(h) ELSE h

WellFormed(h) ==
    /\ Len(StripOneHash(h)) = 6
    /\ \A k \in 1..6 : IsHexDigit(StripOneHash(h)[k])

\* C9: hex_to_rgb fails with an error on every malformed colour string (wrong
\* length after the optional leading '#', or non-hex characters).
C9_MalformedRaises ==
    (h_pc = "done" /\ ~WellFormed(h_in)) => h_out.err # ""

\* C10: for every valid 6-hex-digit colour string, with or without the
\* leading '#' and in any letter case, hex_to_rgb returns a triple of values
\* in 0..255 and converting the triple back to hex yields the input's digits
\* in lowercase.
C10_RoundTrip ==
    (h_pc = "done" /\ WellFormed(h_in)) =>
        /\ h_out.err = ""
        /\ Len(h_out.rgb) = 3
        /\ \A k \in 1..3 : h_out.rgb[k] \in 0..255
        /\ rgb_to_hex(h_out.rgb) = lower(StripOneHash(h_in))

C10_Witness ==
    /\ h_pc = "done"
    /\ h_in = <<"#", "a", "F", "9", "9", "F", "a">>
    /\ h_out.rgb = <<175, 153, 250>>

-----------------------------------------------------------------------------
(* Properties of generate_franchise_frames *)

HasPrefix(s, p) == Len(s) >= Len(p) /\ SubSeq(s, 1, Len(p)) = p

\* the folder of a path: the characters before its first "/"
Folder(path) ==
    IF \E k \in 1..Len(path) : path[k] = "/"
    THEN SubSeq(path, 1,
             (CHOOSE k \in 1..Len(path) :
                 path[k] = "/" /\ \A j \in 1..(k - 1) : path[j] # "/") - 1)
    ELSE <<>>

\* the file name of a path: what follows its folder and the "/"
FileName(path) == SubSeq(path, Len(Folder(path)) + 2, Len(path))

HasFrSuffix(folder) ==
    Len(folder) >= 3 /\ SubSeq(folder, Len(folder) - 2, Len(folder)) = <<"_", "F", "R">>

\* the frame sets of the returned list: (offset, folder) of the English set
\* and, for @Amazon.ca, of the French set
FrameSets ==
    { <<0, safe_channel(channel)>> } \cup
    (IF channel = "@Amazon.ca"
     THEN { <<Len(products) + 2, <<"A", "m", "a", "z", "o", "n", "_", "c", "a", "_", "F", "R">>>> }
     ELSE {})

\* the palette gradient with (0-based) index idx, as rendered colours
GradientAt(idx) ==
    << hex_to_rgb(PALETTE_gradients[idx + 1][1]).rgb,
       hex_to_rgb(PALETTE_gradients[idx + 1][2]).rgb >>

\* C4: generate_franchise_frames returns len(products) + 2 entries for each
\* of @AmazonHome, @AmazonBeauty, @AmazonFashion and @Amazon, and
\* 2 * (len(products) + 2) entries for @Amazon.ca, the empty list included.
C4_FrameCount ==
    s_pc = "done" =>
        Len(s_ret) = IF channel = "@Amazon.ca" THEN 2 * (Len(products) + 2)
                     ELSE Len(products) + 2

C4_Witness ==
    /\ s_pc = "done"
    /\ channel = "@Amazon.ca"
    /\ products = <<>>
    /\ Len(s_ret) = 4

\* C5: in each frame set the first entry is Frame_01_Collage, entry i+1 is the
\* individual frame of products[i] numbered Frame_(i+2) in input order, and the
\* last entry is Frame_(n+2)_Collage with the same image as the first entry.
C5_FrameOrder ==
    s_pc = "done" =>
        \A fs \in FrameSets :
            LET o == fs[1]
                folder == fs[2]
                n == Len(products)
            IN  /\ Len(s_ret) >= o + n + 2
                /\ s_ret[o + 1].path = folder \o
                       <<"/", "F", "r", "a", "m", "e", "_", "0", "1", "_",
                         "C", "o", "l", "l", "a", "g", "e", ".", "p", "n", "g">>
                /\ s_ret[o + 1].image.kind = "collage"
                /\ \A i \in 0..(n - 1) :
                      /\ HasPrefix(s_ret[o + i + 2].path,
                             folder \o <<"/", "F", "r", "a", "m", "e", "_">>
                                 \o fmt02(i + 2) \o <<"_">>)
                      /\ "asin" \in DOMAIN products[i + 1] =>
                             FileName(s_ret[o + i + 2].path) =
                                 <<"F", "r", "a", "m", "e", "_">> \o fmt02(i + 2)
                                     \o <<"_">> \o products[i + 1].asin
                                     \o <<".", "p", "n", "g">>
                      /\ s_ret[o + i + 2].image.kind = "individual"
                      /\ s_ret[o + i + 2].image.image = products[i + 1].image
                      /\ s_ret[o + i + 2].image.copy = products[i + 1].copy
                /\ s_ret[o + n + 2].path = folder \o
                       <<"/", "F", "r", "a", "m", "e", "_">> \o fmt02(n + 2)
                           \o <<"_", "C", "o", "l", "l", "a", "g", "e", ".", "p", "n", "g">>
                /\ s_ret[o + n + 2].image = s_ret[o + 1].image

C5_Witness ==
    /\ s_pc = "done"
    /\ channel = "@AmazonHome"
    /\ Len(products) = 3
    /\ products[1] # products[2]
    /\ s_ret[5].image = s_ret[1].image
    /\ s_ret[3].image.image = products[2].image

\* C6: for @Amazon.ca the English frame set is followed by a second complete
\* set under the folder with suffix _FR, with the same frame numbers and
\* labels, the same products in the same order and the same gradient per
\* frame; no other channel produces a _FR path.
C6_FrenchSet ==
    s_pc = "done" =>
        IF channel = "@Amazon.ca"
        THEN LET n == Len(products)
             IN  /\ Len(s_ret) = 2 * (n + 2)
                 /\ \A k \in 1..(n + 2) :
                       /\ Folder(s_ret[k].path) = <<"A", "m", "a", "z", "o", "n", "_", "c", "a">>
                       /\ Folder(s_ret[n + 2 + k].path) = <<"A", "m", "a", "z", "o", "n", "_", "c", "a", "_", "F", "R">>
                       /\ FileName(s_ret[n + 2 + k].path) = FileName(s_ret[k].path)
                       /\ s_ret[n + 2 + k].image.kind = s_ret[k].image.kind
                       /\ s_ret[n + 2 + k].image.gradient = s_ret[k].image.gradient
                       /\ s_ret[k].image.kind = "individual" =>
                              /\ s_ret[k].image.image = products[k - 1].image
                              /\ s_ret[n + 2 + k].image.image = products[k - 1].image
                       /\ s_ret[k].image.kind = "collage" =>
                              s_ret[n + 2 + k].image.display = s_ret[k].image.display
                 /\ s_ret[n + 3].image.title = "Tout juste sorti"
        ELSE \A k \in 1..Len(s_ret) : ~HasFrSuffix(Folder(s_ret[k].path))

C6_Witness ==
    /\ s_pc = "done"
    /\ channel = "@Amazon.ca"
    /\ Len(products) = 2
    /\ products[1] # products[2]
    /\ Folder(s_ret[6].path) = <<"A", "m", "a", "z", "o", "n", "_", "c", "a", "_", "F", "R">>
    /\ s_ret[6].image.image = products[1].image

\* the 0-based position of entry k within its frame set
FramePosition(k) ==
    IF channel = "@Amazon.ca" THEN (k - 1) % (Len(products) + 2) ELSE k - 1

\* C7 as stated: for @Amazon and @Amazon.ca the gradient of each frame is the
\* palette gradient at index (frame position modulo 6), the position counted
\* from 0 or counted from 1 (the frame number).
C7_GradientByFramePosition ==
    (s_pc = "done" /\ channel \in {"@Amazon", "@Amazon.ca"} /\ products # <<>>) =>
        \E first \in {0, 1} :
            \A k \in 1..Len(s_ret) :
                s_ret[k].image.gradient = GradientAt((FramePosition(k) + first) % 6)

\* C7 (amended): for @Amazon and @Amazon.ca the individual frame of
\* products[i] (i counted from 0) has the palette gradient at index i modulo 6,
\* and both collage frames of a set have the palette gradient at index 0.
C7_GradientByProductIndex ==
    (s_pc = "done" /\ channel \in {"@Amazon", "@Amazon.ca"}) =>
        \A k \in 1..Len(s_ret) :
            LET pos == FramePosition(k)
            IN  s_ret[k].image.gradient =
                    IF pos = 0 \/ pos = Len(products) + 1 THEN GradientAt(0)
                    ELSE GradientAt((pos - 1) % 6)

C7_Witness ==
    /\ s_pc = "done"
    /\ channel = "@Amazon"
    /\ Len(products) = 7
    /\ s_ret[7].image.gradient = GradientAt(5)
    /\ s_ret[8].image.gradient = GradientAt(0)
    /\ s_ret[9].image.kind = "collage"

-----------------------------------------------------------------------------
(* Properties of _pad_products *)

\* C8: for a non-empty list _pad_products returns exactly count items, item i
\* being products[i mod len(products)]; for an empty list it returns the
\* empty list; the input list is not modified.
C8_PadCyclic ==
    p_pc = "done" =>
        /\ p_orig # <<>> =>
              /\ Len(p_out) = p_count
              /\ \A i \in 0..(p_count - 1) :
                    p_out[i + 1] = p_orig[(i % Len(p_orig)) + 1]
        /\ p_orig = <<>> => p_out = <<>>
        /\ p_products = p_orig

C8_Witness ==
    /\ p_pc = "done"
    /\ Len(p_orig) = 3
    /\ p_orig[1] # p_orig[2]
    /\ p_count = 8
    /\ p_out[8] = p_orig[2]
    /\ p_out[7] = p_orig[1]

-----------------------------------------------------------------------------
(* Properties of fit_image *)

\* the scale factor min(maxW / width, maxH / height) as the fraction m / n
FitRatio ==
    IF f_max_w * f_img.height <= f_max_h * f_img.width
    THEN [m |-> f_max_w, n |-> f_img.width]
    ELSE [m |-> f_max_h, n |-> f_img.height]

\* floor(dim * min(maxW / width, maxH / height)), at least 1
FloorScaled(dim) == Max(1, (dim * FitRatio.m) \div FitRatio.n)

FitWithinBox ==
    f_pc = "done" =>
        /\ 1 <= f_out.width /\ f_out.width <= f_max_w
        /\ 1 <= f_out.height /\ f_out.height <= f_max_h

\* C11: for every image size and every positive maxW, maxH the returned
\* width is <= maxW, the returned height is <= maxH, both are >= 1, and each
\* is floor(dimension * min(maxW / width, maxH / height)).
C11_FitFloor ==
    /\ FitWithinBox
    /\ f_pc = "done" =>
        /\ f_out.width = FloorScaled(f_img.width)
        /\ f_out.height = FloorScaled(f_img.height)

\* the returned size is never more than one pixel under the floor
FitWithinOnePixel ==
    f_pc = "done" =>
        /\ f_out.width \in {FloorScaled(f_img.width), FloorScaled(f_img.width) - 1}
        /\ f_out.height \in {FloorScaled(f_img.height), FloorScaled(f_img.height) - 1}

-----------------------------------------------------------------------------
(* Properties of trim_transparent *)

\* C12: trim_transparent is idempotent: trimming the trimmed image gives an
\* image of the same size with the same pixels.
C12_TrimIdempotent ==
    t_pc = "twice" =>
        /\ t_twice.width = t_once.width
        /\ t_twice.height = t_once.height
        /\ t_twice.px = t_once.px

\* a call that cropped a border on every side, trimmed again
C12_Witness ==
    /\ t_pc = "twice"
    /\ t_img.width = 3 /\ t_img.height = 3
    /\ t_once.width = 1 /\ t_once.height = 1
    /\ t_twice.px = <<<<<<240, 255, 255, 11>>>>>>

\* a pixel is content: alpha > 10 and not all three colour channels > 240
IsContentPixel(p) == p[4] > 10 /\ ~(p[1] > 240 /\ p[2] > 240 /\ p[3] > 240)

\* the pixel at column x, row y (1-based) of the argument, seen as RGBA
ArgPixel(x, y) ==
    IF t_img.mode = "RGBA" THEN t_img.px[y][x] ELSE t_img.px[y][x] \o <<255>>

ContentCells ==
    {c \in (1..t_img.width) \X (1..t_img.height) :
        IsContentPixel(ArgPixel(c[1], c[2]))}

\* C13: an image without a content pixel comes back with its size and its
\* pixels; any other image is cropped exactly to the bounding box of its
\* content pixels.
C13_TrimToContentBox ==
    t_pc \in {"once", "twice"} =>
        IF ContentCells = {}
        THEN /\ t_once.width = t_img.width
             /\ t_once.height = t_img.height
             /\ \A y \in 1..t_img.height : \A x \in 1..t_img.width :
                    t_once.px[y][x] = ArgPixel(x, y)
        ELSE LET xs == {c[1] : c \in ContentCells}
                 ys == {c[2] : c \in ContentCells}
                 x0 == CHOOSE x \in xs : \A o \in xs : x <= o
                 x1 == CHOOSE x \in xs : \A o \in xs : x >= o
                 y0 == CHOOSE y \in ys : \A o \in ys : y <= o
                 y1 == CHOOSE y \in ys : \A o \in ys : y >= o
             IN  /\ t_once.width = x1 - x0 + 1
                 /\ t_once.height = y1 - y0 + 1
                 /\ \A y \in 1..t_once.height : \A x \in 1..t_once.width :
                        t_once.px[y][x] = ArgPixel(x + x0 - 1, y + y0 - 1)

\* an all-white image of more than one pixel came back whole, and an image
\* with blank pixels of alpha 10 around its content was cropped
C13_Witness ==
    /\ t_pc = "once"
    /\ t_img.width = 3 /\ t_img.height = 3
    /\ \A y \in 1..3 : \A x \in 1..3 : ArgPixel(x, y) = <<255, 255, 255, 255>>
    /\ t_once.width = 3 /\ t_once.height = 3

-----------------------------------------------------------------------------
(* Properties of the headline layout *)

\* the sizes 8 .. floor(0.40 * height) at which the headline fits its zone
FittingSizes ==
    {s \in 8..((hl_h * 40) \div 100) :
        textbbox_width(hl_txt, s) <= pct(hl_w, 62) - pct(hl_w, 17)}

\* C14: the headline is rendered at the largest size s, 8 <= s <=
\* floor(0.40 * height), at which its measured width is at most the zone
\* width, and at the floor size 8 when no size in that range fits.
C14_HeadlineLargestFit ==
    hl_pc = "done" =>
        hl_drawn = IF FittingSizes = {} THEN 8
                   ELSE CHOOSE s \in FittingSizes : \A o \in FittingSizes : o <= s

\* as long as some size above 8 fits, the headline is rendered at the largest
\* size that fits
HeadlineLargestFitAbove8 ==
    (hl_pc = "done" /\ FittingSizes \ {8} # {}) =>
        hl_drawn = CHOOSE s \in FittingSizes : \A o \in FittingSizes : o <= s

\* the loop has ended: the final size is at least the floor of 8, at most
\* start size - 8 decrements have run, and hl_font is bound
LoopEndedWell ==
    /\ hl_pc \in {"loop", "draw", "done"} => hl_decrements <= start_size(hl_h) - 8
    /\ hl_pc \in {"draw", "done"} =>
        /\ hl_size >= 8
        /\ hl_size = start_size(hl_h) - hl_decrements
        /\ hl_font # NoFont

\* C27: the shrink-to-fit loop of the headline layout terminates for every
\* headline and every banner height, after at most (start size - 8)
\* decrements, with a final size of at least 8 and with a font bound for
\* drawing.
C27_ShrinkLoopTerminates ==
    /\ []LoopEndedWell
    /\ <>(hl_pc = "done")

\* a headline that fits at no size: the loop ran all its decrements down to 8
\* on a banner whose starting size is the least one, 16
C27_Witness ==
    /\ hl_pc = "done"
    /\ hl_h = 20
    /\ hl_size = 8
    /\ hl_decrements = 8
    /\ hl_drawn # NoFont

-----------------------------------------------------------------------------
(* Properties of the individual layouts *)

\* the first n characters of a text
FirstChars(s, n) == [k \in 1..(IF Len(s) < n THEN Len(s) ELSE n) |-> s[k]]

SmellsCopy ==
    <<"S", "m", "e", "l", "l", "s", " ", "a", "m", "a", "z", "i", "n", "g", " ",
      "a", "n", "d", " ", "l", "a", "s", "t", "s", " ", "a", "l", "l", " ",
      "d", "a", "y">>

\* C15 as stated: on the @AmazonBeauty individual layout the annotation is
\* exactly the first 30 characters of the product's copy; for the copy "Smells
\* amazing and lasts all day" it is "Smells amazing and lasts all ".
C15_BeautyAnnotationAsStated ==
    (i_pc = "done" /\ i_channel = "@AmazonBeauty"
        /\ "copy" \in DOMAIN i_product /\ i_product.copy # <<>>) =>
        /\ i_frame.notes = <<FirstChars(i_product.copy, 30)>>
        /\ i_product.copy = SmellsCopy =>
             i_frame.notes =
                <<<<"S", "m", "e", "l", "l", "s", " ", "a", "m", "a", "z", "i", "n",
                    "g", " ", "a", "n", "d", " ", "l", "a", "s", "t", "s", " ", "a",
                    "l", "l", " ">>>>

\* C15 (amended): on the @AmazonBeauty individual layout the annotation of a
\* product with a non-empty copy is exactly the first 30 characters of the
\* copy; for the copy "Smells amazing and lasts all day" it is the 30
\* characters "Smells amazing and lasts all d".
C15_BeautyAnnotationFirst30 ==
    (i_pc = "done" /\ i_channel = "@AmazonBeauty"
        /\ "copy" \in DOMAIN i_product /\ i_product.copy # <<>>) =>
        /\ i_frame.notes = <<FirstChars(i_product.copy, 30)>>
        /\ i_product.copy = SmellsCopy =>
             i_frame.notes =
                <<<<"S", "m", "e", "l", "l", "s", " ", "a", "m", "a", "z", "i", "n",
                    "g", " ", "a", "n", "d", " ", "l", "a", "s", "t", "s", " ", "a",
                    "l", "l", " ", "d">>>>

C15_Witness ==
    /\ i_pc = "done"
    /\ i_channel = "@AmazonBeauty"
    /\ "copy" \in DOMAIN i_product
    /\ i_product.copy = SmellsCopy
    /\ Len(i_frame.notes[1]) = 30
    /\ i_frame.notes[1][30] = "d"

-----------------------------------------------------------------------------
(* Properties of _draw_text_block *)

\* the words of the lines, in order
RECURSIVE WordsOfLines(_)
WordsOfLines(ls) ==
    IF ls = <<>> THEN <<>> ELSE split(Head(ls)) \o WordsOfLines(Tail(ls))

\* C16: the wrap is greedy: a line ends exactly where the next word would
\* make it wider than max_width; every line of more than one word is at most
\* max_width wide, a word wider than max_width is alone on its line, no line
\* is empty, and the lines joined by single spaces are the words of the text
\* in their order.
C16_GreedyWrap ==
    (w_pc = "done" /\ w_max_width # 0) =>
        /\ \A j \in 1..Len(w_lines) :
            /\ w_lines[j] # <<>>
            /\ w_lines[j] = join(split(w_lines[j]))
            /\ Len(split(w_lines[j])) > 1 =>
                    textbbox_right(w_lines[j]) <= w_max_width
            /\ (\E k \in 1..Len(split(w_lines[j])) :
                    textbbox_right(split(w_lines[j])[k]) > w_max_width)
                  => Len(split(w_lines[j])) = 1
            /\ j < Len(w_lines) =>
                    textbbox_right(w_lines[j] \o <<" ">> \o split(w_lines[j + 1])[1])
                        > w_max_width
        /\ WordsOfLines(w_lines) = split(w_text)
        /\ join(w_lines) = join(split(w_text))

\* three words on two lines, the first line filled to exactly max_width
C16_Witness ==
    /\ w_pc = "done"
    /\ w_max_width = 5
    /\ w_text = <<"i", " ", "W", " ", " ", "W", "i">>
    /\ w_lines = << <<"i", " ", "W">>, <<"W", "i">> >>

-----------------------------------------------------------------------------
(* Properties of theme_name *)

\* two canvases are the same apart from the title text (and the month label,
\* which follows the clock)
SameButTitle(a, b) ==
    /\ a.kind = b.kind
    /\ IF a.kind = "collage"
       THEN [a EXCEPT !.title = "", !.month = ""] = [b EXCEPT !.title = "", !.month = ""]
       ELSE a = b

\* a second call that differs from the first only in theme_name returns as
\* many frames, under the same paths, with the same layout
ThemeNoOtherEffect ==
    (s_pc = "done" /\ r_calls = 1) =>
        /\ Len(s_ret) = Len(first_ret)
        /\ \A k \in 1..Len(s_ret) :
            /\ s_ret[k].path = first_ret[k].path
            /\ SameButTitle(s_ret[k].image, first_ret[k].image)

\* C17: theme_name has no effect on frame count, paths or layout, and it
\* determines the title text of the collage frame: two calls that differ only
\* in theme_name differ in the rendered title text, and in nothing else.
C17_ThemeDeterminesTitle ==
    /\ ThemeNoOtherEffect
    /\ (s_pc = "done" /\ r_calls = 1) =>
        \A k \in 1..Len(s_ret) :
            (k <= Len(first_ret) /\ s_ret[k].image.kind = "collage") =>
                s_ret[k].image.title # first_ret[k].image.title

-----------------------------------------------------------------------------
(* Properties of _extract_themes_from_results *)

\* the lowercased title + description of every result
SignalTexts ==
    [i \in 1..Len(e_results) |->
        str_lower(e_results[i].title \o <<" ">> \o e_results[i].description)]

\* what the call returns for an empty result list
Templates == theme_templates(e_channel, _current_season(e_month), e_year)

\* C18: the returned list is the fixed theme list of the channel (same names
\* and keywords whatever the results are); a theme matched by some result has
\* its template rationale followed by an excerpt of at most 120 characters of
\* the first matching result, in input order; a theme matched by no result
\* has its template rationale unmodified.
C18_FixedThemesWithSignal ==
    e_pc = "done" =>
        LET texts == SignalTexts
            templates == Templates
        IN  /\ Len(e_themes) = Len(templates)
            /\ \A t \in 1..Len(e_themes) :
                LET hits == {i \in 1..Len(texts) :
                                \E k \in 1..Len(templates[t].keywords) :
                                    contains(texts[i], templates[t].keywords[k])}
                    first == CHOOSE i \in hits : \A o \in hits : i <= o
                    n == Len(templates[t].rationale)
                    added == SubSeq(e_themes[t].rationale, n + 1,
                                    Len(e_themes[t].rationale))
                    excerpt == SubSeq(added, 2, Len(added) - 1)
                IN  /\ e_themes[t].name = templates[t].name
                    /\ e_themes[t].keywords = templates[t].keywords
                    /\ IF hits = {}
                       THEN e_themes[t].rationale = templates[t].rationale
                       ELSE /\ SubSeq(e_themes[t].rationale, 1, n) = templates[t].rationale
                            /\ Len(added) >= 2
                            /\ added[1] = " Trend signal: \""
                            /\ added[Len(added)] = "...\""
                            /\ Len(excerpt) <= 120
                            /\ excerpt = strip(FirstChars(texts[first], 120))

\* the first result matches no theme of the channel, the second and the third
\* match the last theme, and the excerpt is cut from the second
C18_Witness ==
    /\ e_pc = "done"
    /\ e_channel = "@Amazon.ca"
    /\ Len(e_results) = 3
    /\ e_results[1].title = <<"Q", "u", "i", "e", "t">>
    /\ e_results[2].title = <<"V", "i", "r", "a", "l">>
    /\ e_results[3].title = <<"C", "o", "z", "y", " ", "H", "O", "M", "E">>
    /\ e_month = 7
    /\ e_themes[1].rationale[3] = "v"
    /\ Len(e_themes[1].rationale) = 1 + 1 + 119 + 1
    /\ Len(e_themes[2].rationale) = 1 + 1 + 119 + 1

-----------------------------------------------------------------------------
(* Properties of the search functions *)

\* the requests of the search call to one provider
RequestsTo(p) == SelectSeq(q_log, LAMBDA r : r.provider = p)

\* a search call is over: the function returned, or research_themes took the
\* result of its last _brave_web_search
SearchCallOver ==
    \/ q_pc = "done"
    \/ q_fn = "research_themes" /\ q_pc \in {"term", "channel"}

\* C19: a request that fails with a rate limit is sent again, up to 2 more
\* times, before the empty result is returned; a request that fails otherwise
\* is not sent again; no search call sends a request more than 3 times.
C19_RateLimitRetried ==
    SearchCallOver =>
        \A p \in {"brave", "ddg"} :
            LET reqs == RequestsTo(p)
            IN  /\ Len(reqs) <= 3
                /\ (reqs # <<>> /\ reqs[Len(reqs)].status = "rate_limit")
                        => Len(reqs) = 3
                /\ (reqs # <<>> /\ reqs[Len(reqs)].status
                        \in FailStatuses \ {"rate_limit"}) => Len(reqs) = 1

\* no request is sent a second time, whatever its outcome
NoRequestRepeated ==
    \A p \in {"brave", "ddg"} : Len(RequestsTo(p)) <= 1

\* C20: no failure of an external search leaves a search function as an
\* exception.  _brave_web_search returns [] without an API key and on any
\* failed request; search_images asks Brave first and only when a key is set,
\* asks DuckDuckGo only when Brave was skipped or has failed, and returns []
\* when DuckDuckGo fails; research_themes returns a theme list for every
\* requested channel.
C20_SearchFailuresRecovered ==
    /\ q_pc # "raised"
    /\ q_pc = "channel" => q_ci <= Len(q_channels)
    /\ q_pc = "term" => (q_ci < Len(q_channels)
                            /\ q_ti <= Len(search_terms(q_channels[q_ci + 1])))
    /\ (q_fn = "_brave_web_search" /\ q_pc = "done") =>
        /\ ~q_key => (q_log = <<>> /\ q_ret = <<>>)
        /\ (q_log # <<>> /\ q_log[1].status \in FailStatuses) => q_ret = <<>>
    /\ q_fn = "search_images" =>
        /\ \A i \in 1..Len(q_log) :
            /\ q_log[i].provider = "brave" => (q_key /\ i = 1)
            /\ q_log[i].provider = "ddg" =>
                \/ i = 1 /\ ~q_key
                \/ i = 2 /\ q_log[1].provider = "brave"
                         /\ q_log[1].status \in FailStatuses
        /\ q_pc = "done" =>
            /\ q_log # <<>>
            /\ q_key => q_log[1].provider = "brave"
            /\ q_log[Len(q_log)].status \in FailStatuses =>
                    (q_log[Len(q_log)].provider = "ddg" /\ q_ret = <<>>)
    /\ (q_fn = "research_themes" /\ q_pc = "done") =>
        /\ DOMAIN q_ret = {q_channels[k] : k \in 1..Len(q_channels)}
        /\ \A c \in DOMAIN q_ret :
            /\ Len(q_ret[c]) >= 2
            /\ \A t \in 1..Len(q_ret[c]) :
                q_ret[c][t].name # <<>> /\ Len(q_ret[c][t].keywords) = 4

\* research_themes returned the themes of all five channels although the
\* last request was rate limited
C20_Witness ==
    /\ q_fn = "research_themes"
    /\ q_pc = "done"
    /\ q_key
    /\ Len(q_channels) = 5
    /\ q_log = <<[provider |-> "brave", status |-> "rate_limit"]>>
    /\ Len(q_ret["@Amazon.ca"]) = 2
    /\ Len(q_ret["@AmazonHome"]) = 3

-----------------------------------------------------------------------------
(* Properties of generate_all_franchises *)

\* the frames a requested channel stands for: N + 2, twice that with a French set
FramesDue(item) ==
    (Len(item.products) + 2) * (IF item.channel = "@Amazon.ca" THEN 2 ELSE 1)

RECURSIVE SumDue(_)
SumDue(items) == IF items = <<>> THEN 0 ELSE FramesDue(Head(items)) + SumDue(Tail(items))

\* the keys of franchise_data that CHANNEL_BUILDERS holds, in dict order
KnownItems == SelectSeq(franchise_data, LAMBDA item : item.channel \in CHANNEL_BUILDERS)

\* a returned list holds the full frame set of every channel that has a builder
KnownFranchisesComplete ==
    g_pc = "done" => Len(g_ret) = SumDue(KnownItems)

\* C21: when generate_all_franchises returns (it did not raise), the returned
\* list holds the full frame set, N + 2 frames and as many again in French for
\* @Amazon.ca, of every channel key of franchise_data: no channel is missing.
C21_AllFranchisesOrRaise ==
    g_pc = "done" => Len(g_ret) = SumDue(franchise_data)

-----------------------------------------------------------------------------
(* Properties of the banner pages *)

\* the sizes and languages of a result list, in order
Rasters(entries) ==
    [k \in 1..Len(entries) |->
        [w |-> entries[k].image.w, h |-> entries[k].image.h,
         lang |-> entries[k].image.lang]]

\* C22: a click of Generate on the CA page with a valid config returns the
\* result list instead of failing, and that list holds the same rasters (same
\* count, sizes and languages) as generate_all returns for the config on the
\* US page.
C22_RegionalSameRasters ==
    (pg_page = "ca" /\ pg_pc \in {"shown", "failed"}) =>
        /\ pg_pc = "shown"
        /\ Rasters(pg_results) = Rasters(generate_all(pg_cfg).value)

\* the US page and app.py do return the twelve banners for the same config
UsPageReturns ==
    (pg_page \in {"us", "app"} /\ pg_pc \in {"shown", "failed"}) =>
        /\ pg_pc = "shown"
        /\ Len(pg_results) = 12
        /\ pg_results = generate_all(pg_cfg).value

\* every field of a config is present: the images are not None and the four texts are not empty
AllPresent(logo, product, name, abbrev, eng, esp) ==
    /\ logo # ImageNone
    /\ product # ImageNone
    /\ Len(name) > 0
    /\ Len(abbrev) > 0
    /\ Len(eng) > 0
    /\ Len(esp) > 0

\* C23: a banner page has called generate_all only with a cfg whose logo image
\* and product image are not None and whose brand name, brand abbreviation,
\* English headline and Spanish headline are not empty; and whenever one of
\* them is missing in the widgets, the Generate button is disabled.
C23_GenerateOnlyWhenComplete ==
    /\ pg_pc \in {"shown", "failed"} =>
        /\ pg_cfg # NoCfg
        /\ AllPresent(pg_cfg.logo_image, pg_cfg.product_image, pg_cfg.brand_name,
                      pg_cfg.brand_abbrev, pg_cfg.headline_eng, pg_cfg.headline_esp)
    /\ pg_pc = "form" => pg_cfg = NoCfg
    /\ (pg_pc # "idle"
        /\ ~AllPresent(logo_img, product_img, brand_name, brand_abbrev,
                       headline_eng, headline_esp)) => generate_disabled

\* generate_all was called from the US page with a complete cfg and returned
C23_Witness ==
    /\ pg_page = "us"
    /\ pg_pc = "shown"
    /\ pg_cfg.headline_esp = "Activador de la motilidad"
    /\ pg_cfg.logo_image = 1
    /\ Len(pg_results) = 12

\* the ZIP of app.py holds every entry of the result list
ZipHoldsAll ==
    (pg_page = "app" /\ pg_pc = "shown") => pg_zip = pg_results

\* the preview of app.py shows the six full-size banners and the two 650x45 ones
PreviewShowsEight ==
    (pg_page = "app" /\ pg_pc = "shown") =>
        pg_preview = SelectSeq(pg_results,
                         LAMBDA e : IsLargeSize(e.image) \/ e.image.w = 650)

\* C30: after generation in app.py the preview shows exactly the 6 full-size
\* banners of the result list (1300x90, 1200x90 and 640x90 in each language)
\* and no half-size banner, and the ZIP holds every entry of the result list.
C30_PreviewSixLarge ==
    (pg_page = "app" /\ pg_pc = "shown") =>
        /\ Len(pg_preview) = 6
        /\ pg_preview = SelectSeq(pg_results, LAMBDA e : IsLargeSize(e.image))
        /\ pg_zip = pg_results

-----------------------------------------------------------------------------
(* Properties of the Just Dropped wizard *)

\* the non-empty ASINs of a list of rows are pairwise distinct
AsinsDistinct(rows) ==
    \A i, j \in 1..Len(rows) :
        (i # j /\ rows[i].asin # <<>>) => rows[i].asin # rows[j].asin

\* every row with an ASIN has an image
AsinsHaveImages(rows) ==
    \A i \in 1..Len(rows) : rows[i].asin # <<>> => rows[i].image # ImageNone

\* some row of some channel has an ASIN and an image
SomeReady ==
    \E ch \in DOMAIN jd_products : \E i \in 1..Len(jd_products[ch]) :
        jd_products[ch][i].asin # <<>> /\ jd_products[ch][i].image # ImageNone

\* C24: whenever the wizard is at step 3 or step 4, and so whenever
\* generate_all_franchises is called, the non-empty ASINs within each channel's
\* product list are pairwise distinct, every product with an ASIN has an
\* image, and at least one product is ready.
C24_ProductsValidAtGeneration ==
    jd_step \in {3, 4} =>
        /\ \A ch \in DOMAIN jd_products :
              AsinsDistinct(jd_products[ch]) /\ AsinsHaveImages(jd_products[ch])
        /\ SomeReady

\* frames were generated for two products of the channel
C24_Witness ==
    /\ jd_step = 3
    /\ wz_event = "generate"
    /\ Len(ready_products(jd_products[wz_tab])) = 2
    /\ Truthy(jd_generated_frames)

\* no validation error: no channel repeats an ASIN and no row with an ASIN lacks its image
NoValidationError ==
    \A ch \in DOMAIN jd_products :
        AsinsDistinct(jd_products[ch]) /\ AsinsHaveImages(jd_products[ch])

\* a step of the wizard that changes jd_step is one of the five allowed moves
AllowedMove ==
    \/ /\ jd_step = 1
       /\ jd_step' = 2
       /\ \A ch \in CHANNELS : ch \in DOMAIN jd_approved_themes
    \/ /\ jd_step = 2
       /\ jd_step' = 3
       /\ SomeReady
       /\ NoValidationError
    \/ /\ jd_step = 3
       /\ jd_step' = 4
       /\ ~jd_generated_frames.none
       /\ Len(jd_generated_frames.value) > 0
    \/ /\ jd_step \in 2..4
       /\ jd_step' = jd_step - 1
       /\ wz_event' = "back"
    \/ /\ jd_step = 4
       /\ wz_event' = "start new"
       /\ DefaultSession'

\* C28: jd_step starts at 1 and is always one of 1, 2, 3, 4; every change of
\* jd_step goes to an adjacent step (1 to 2 only when all five channels have
\* an approved theme, 2 to 3 only when a product is ready and there is no
\* validation error, 3 to 4 only when generated frames exist, or back by one
\* step), except Start New Franchise, after which the session holds the
\* defaults of a new session at step 1.
C28_WizardSteps ==
    /\ jd_step = 1
    /\ [](jd_step \in 1..4)
    /\ [][jd_step' # jd_step => AllowedMove]_vars

\* Start New Franchise has put a session that had a report back to step 1
C28_Witness ==
    /\ wz_event = "start new"
    /\ jd_step = 1
    /\ DefaultSession

\* the frames generate_all_franchises returns for the products of the session
CurrentFrames ==
    generate_all_franchises(franchise_data_of(jd_products), jd_approved_themes,
                            wz_month).value

\* the frames held right after Generate All Frames are those of the products
FramesFreshAfterGenerate ==
    wz_event = "generate" =>
        (~jd_generated_frames.none /\ jd_generated_frames.value = CurrentFrames)

\* the report rows of the session name the ASINs of the frames held
RowsMirror(frames) ==
    \A ch \in DOMAIN report_of(jd_products) :
        LET rows == report_of(jd_products)[ch]
        IN  \A r \in 1..Len(rows) :
                ~rows[r].collage =>
                    \E k \in 1..Len(frames) :
                        frames[k].path =
                            individual_path(safe_channel(ch), rows[r].frame - 2,
                                            [asin |-> rows[r].asin])

\* C29: whenever the wizard is at step 4, the frames held in the session are
\* the frames of the product lists held in the session: the report row
\* 'Frame i+2' of a channel names the ASIN of that channel's frame i+2, and
\* the number of frames shown is the number of frames of the current products.
C29_ReportMirrorsFrames ==
    jd_step = 4 =>
        /\ ~jd_generated_frames.none
        /\ jd_generated_frames.value = CurrentFrames
        /\ RowsMirror(jd_generated_frames.value)
        /\ Len(jd_generated_frames.value) = Len(CurrentFrames)

-----------------------------------------------------------------------------
(* Properties of repeated calls *)

\* the file names of a returned list
PathsOf(ret) ==
    [k \in 1..Len(ret.value) |->
        IF "path" \in DOMAIN ret.value[k] THEN ret.value[k].path ELSE ret.value[k].name]

\* two calls with equal arguments return the same file names, and generate_all
\* returns the same images as well
RepeatSameNames ==
    d_pc = "twice" =>
        /\ d_first.raised = d_second.raised
        /\ PathsOf(d_first) = PathsOf(d_second)
        /\ d_fn = "generate_all" => d_first = d_second

\* C25: two calls of generate_franchise_frames, or of generate_all, with equal
\* arguments return equal file name lists and equal image content, whenever
\* they are executed (the clock has no influence on the result).
C25_EqualArgumentsEqualResults ==
    d_pc = "twice" => d_first = d_second

-----------------------------------------------------------------------------
(* Properties of the banner layouts *)

\* the zones of the banner being built
Zones == layout_zones(ly_size.w, ly_size.h, ly_size.has_hl)

\* a rectangle lies inside the canvas
InCanvas(box) ==
    /\ 0 <= box.left /\ box.left < box.right /\ box.right <= ly_size.w
    /\ 0 <= box.top /\ box.top < box.bottom /\ box.bottom <= ly_size.h

\* a rectangle is vertically centred: y = (h - image height) div 2
Centred(box) == box.top = (ly_size.h - (box.bottom - box.top)) \div 2

\* C26: in both layouts, for each of the three sizes and every logo and
\* product image size, the pasted logo lies horizontally inside the logo zone
\* and the pasted product inside the product zone, both lie inside the canvas
\* and are vertically centred at y = (h - image height) div 2, and the logo,
\* product and CTA zones do not overlap.
C26_PastedInsideZones ==
    /\ ly_pc \in {"logo", "done"} =>
        /\ Zones.logo_l <= ly_logo_box.left /\ ly_logo_box.right <= Zones.logo_r
        /\ InCanvas(ly_logo_box)
        /\ Centred(ly_logo_box)
    /\ ly_pc = "done" =>
        /\ Zones.prod_l <= ly_prod_box.left /\ ly_prod_box.right <= Zones.prod_r
        /\ InCanvas(ly_prod_box)
        /\ Centred(ly_prod_box)
    /\ ly_pc # "idle" =>
        /\ 0 <= Zones.logo_l /\ Zones.logo_l < Zones.logo_r
        /\ Zones.logo_r < Zones.prod_l /\ Zones.prod_l < Zones.prod_r
        /\ Zones.prod_r < Zones.cta_l /\ Zones.cta_l < Zones.cta_r
        /\ Zones.cta_r <= ly_size.w

\* a compact banner whose logo and product were both scaled down to the
\* width of their zones
C26_Witness ==
    /\ ly_pc = "done"
    /\ ~ly_size.has_hl
    /\ ly_logo.width > Zones.logo_r - Zones.logo_l
    /\ ly_logo_box.right = Zones.logo_r
    /\ ly_prod.width > Zones.prod_r - Zones.prod_l
    /\ ly_prod_box.left = Zones.prod_l
    /\ ly_prod_box.right = Zones.prod_r

====
